---- MODULE Spec2Model ----
(***************************************************************************)
(* Verification model of the ProjetoDadosPortal ingestion pipeline:        *)
(*   - the APScheduler job runner and the job functions (scheduler/jobs.py)*)
(*   - the manual trigger endpoint (main.py)                               *)
(*   - the store gateway operations on noticias, portal_trending_topics,   *)
(*     social_mentions, mention_topics and coleta_logs (database.py)       *)
(*   - the social-mention roll-up (collectors/social_mentions.py)          *)
(*   - the news collection, the relevance engine and the name analyzer     *)
(*     (collectors/news_aggregator.py, relevance/)                         *)
(*   - the topic classifier (ai/topic_analyzer.py)                         *)
(* Each subsystem has its own specification (SpecSched, SpecNews,          *)
(* SpecTrend, SpecMentions, ...); the variables of the other subsystems    *)
(* stay unchanged in it.                                                   *)
(***************************************************************************)
EXTENDS Integers, Sequences, FiniteSets, TLC

VARIABLES
    runs,          \* job executions (coroutines): seq of [origem, tipo, pc, log_id, api_log_id, idx, erros, persistidos]
    coleta_logs,   \* table coleta_logs: seq of rows, the row id is the index
    instances,     \* APScheduler executor: running instances per job id
    running,       \* scheduler.running
    skipped,       \* per job id: a firing was skipped (max instances reached) and logged
    loop           \* asyncio event loop: the run executing synchronous code, 0 when idle

schedVars == <<runs, coleta_logs, instances, running, skipped, loop>>

VARIABLES
    noticias,        \* table noticias: set of rows [url, conteudo], unique on url
    maior_ingerido   \* per canonical key: longest conteudo_completo handed to the store so far, -1 if none

newsVars == <<noticias, maior_ingerido>>

VARIABLES
    trending,        \* table portal_trending_topics: per category, the titles by rank
    upd,             \* the call of update_trending_topics in progress: [pc, category, topics]
    deixado,         \* per category: the rows of the last replacement that became visible
    leitura          \* last answer of get_trending_topics: [category, topics]

trendVars == <<trending, upd, deixado, leitura>>

VARIABLES
    social_mentions,  \* table social_mentions: set of rows
    mention_topics,   \* table mention_topics: set of rows (atualizado_em left out)
    unique_mention,   \* the unique constraint of social_mentions the database has
    now,              \* the clock, in days
    agregado          \* politician whose roll-up was the last to run through, no mention changed since

mentionVars == <<social_mentions, mention_topics, unique_mention, now, agregado>>

VARIABLES
    drv,             \* the full news run: [pc, politicos, idx, estados_processados, cidades_processadas]
    invocacoes       \* per state and per city: calls of its collection during the run

regiaoVars == <<drv, invocacoes>>

VARIABLES
    pontuacao        \* the last item scored by the relevance engine: its input and its scores

scoreVars == <<pontuacao>>

VARIABLES
    escopo_rows,     \* table noticias by scope: set of rows [url, tipo, mencao_titulo, mencao_conteudo, score_mencao]
    descartadas      \* items the last politician-scoped collection filtered out

filtroVars == <<escopo_rows, descartadas>>

VARIABLES
    consulta         \* the last call of get_noticias_politico: [feita, pool, limit, resultado]

consultaVars == <<consulta>>

VARIABLES
    classif          \* the last collection of mentions classified and saved: [feita, cliente, unicas, erro, requests, mencoes, enviadas, store_ok, gravadas]

classifVars == <<classif>>

VARIABLES
    tabelas,         \* per table: the rows, each the day of its timestamp column
    hoje,            \* the retention clock, in days
    limpeza          \* the last run of job_limpeza: [status, em, removidos]

retencaoVars == <<tabelas, hoje, limpeza>>

VARIABLES
    fontes_noticias, \* table fontes_noticias: per source id, peso_confiabilidade in tenths
    fontes_cache,    \* RelevanceEngine._fontes_cache: per domain, the peso_confiabilidade loaded
    peso_definido,   \* per source id: the weight the endpoint last set and answered ok for, -1 if none
    score_fonte      \* the last source score computed: [dominio, score]

fontesVars == <<fontes_noticias, fontes_cache, peso_definido, score_fonte>>

VARIABLES
    agenda           \* the triggers start_scheduler registered: [feita, coleta_horario, jobs]

agendaVars == <<agenda>>

VARIABLES
    nomes            \* the last call of extract_name_variations: [feita, full_name, variations]

nomesVars == <<nomes>>

VARIABLES
    dedup            \* the last call of _remove_duplicates: [feita, entrada, saida]

dedupVars == <<dedup>>

VARIABLES
    selecao          \* the last call of _select_latest_unique_portals: [feita, candidatos, limit, out]

selecaoVars == <<selecao>>

VARIABLES
    coleta_completa  \* the news run under way: [pc, stats, noticias, falhas, persistidas, coletar_brasil, log]

coletaCompletaVars == <<coleta_completa>>

VARIABLES
    identificacao    \* the last call of identificar_trending_topics: [feita, collector, playwright, res, tentadas, adotada, topics]

identificacaoVars == <<identificacao>>

VARIABLES
    requisicao       \* the request of an adapter under way: [pc, adapter, endpoint, tentativa, respostas, esperas, vazio, corpo, levantou]

requisicaoVars == <<requisicao>>

VARIABLES
    rollup           \* the last run of the aggregation loop: [feita, mencoes, agregados, count]

rollupVars == <<rollup>>

VARIABLES
    cenario          \* the last item scored for a politician and filtered: its input, its mentions, its scores, mantida

cenarioVars == <<cenario>>

VARIABLES
    alinhamento      \* the last chunk classified: [feita, batch, modo, mencoes_texto, erro, classificacoes, mencoes]

alinhamentoVars == <<alinhamento>>

vars == <<schedVars, newsVars, trendVars, mentionVars, regiaoVars, scoreVars, filtroVars, consultaVars, classifVars, retencaoVars, fontesVars, agendaVars, nomesVars, dedupVars, selecaoVars, coletaCompletaVars, identificacaoVars, requisicaoVars, rollupVars, cenarioVars, alinhamentoVars>>

\* the variables each subsystem leaves alone
foraConsulta == <<schedVars, newsVars, trendVars, mentionVars, regiaoVars, scoreVars, filtroVars, classifVars, retencaoVars, fontesVars, agendaVars, nomesVars, dedupVars, selecaoVars, coletaCompletaVars, identificacaoVars, requisicaoVars, rollupVars, cenarioVars, alinhamentoVars>>
foraSched == <<newsVars, trendVars, mentionVars, regiaoVars, scoreVars, filtroVars, consultaVars, classifVars, retencaoVars, fontesVars, agendaVars, nomesVars, dedupVars, selecaoVars, coletaCompletaVars, identificacaoVars, requisicaoVars, rollupVars, cenarioVars, alinhamentoVars>>
foraNews == <<schedVars, trendVars, mentionVars, regiaoVars, scoreVars, filtroVars, consultaVars, classifVars, retencaoVars, fontesVars, agendaVars, nomesVars, dedupVars, selecaoVars, coletaCompletaVars, identificacaoVars, requisicaoVars, rollupVars, cenarioVars, alinhamentoVars>>
foraTrend == <<schedVars, newsVars, mentionVars, regiaoVars, scoreVars, filtroVars, consultaVars, classifVars, retencaoVars, fontesVars, agendaVars, nomesVars, dedupVars, selecaoVars, coletaCompletaVars, identificacaoVars, requisicaoVars, rollupVars, cenarioVars, alinhamentoVars>>
foraMentions == <<schedVars, newsVars, trendVars, regiaoVars, scoreVars, filtroVars, consultaVars, classifVars, retencaoVars, fontesVars, agendaVars, nomesVars, dedupVars, selecaoVars, coletaCompletaVars, identificacaoVars, requisicaoVars, rollupVars, cenarioVars, alinhamentoVars>>
foraFiltro == <<schedVars, newsVars, trendVars, mentionVars, regiaoVars, scoreVars, consultaVars, classifVars, retencaoVars, fontesVars, agendaVars, nomesVars, dedupVars, selecaoVars, coletaCompletaVars, identificacaoVars, requisicaoVars, rollupVars, cenarioVars, alinhamentoVars>>
foraScore == <<schedVars, newsVars, trendVars, mentionVars, regiaoVars, filtroVars, consultaVars, classifVars, retencaoVars, fontesVars, agendaVars, nomesVars, dedupVars, selecaoVars, coletaCompletaVars, identificacaoVars, requisicaoVars, rollupVars, cenarioVars, alinhamentoVars>>
foraRegiao == <<schedVars, newsVars, trendVars, mentionVars, scoreVars, filtroVars, consultaVars, classifVars, retencaoVars, fontesVars, agendaVars, nomesVars, dedupVars, selecaoVars, coletaCompletaVars, identificacaoVars, requisicaoVars, rollupVars, cenarioVars, alinhamentoVars>>
foraClassif == <<schedVars, newsVars, trendVars, mentionVars, regiaoVars, scoreVars, filtroVars, consultaVars, retencaoVars, fontesVars, agendaVars, nomesVars, dedupVars, selecaoVars, coletaCompletaVars, identificacaoVars, requisicaoVars, rollupVars, cenarioVars, alinhamentoVars>>
foraRetencao == <<schedVars, newsVars, trendVars, mentionVars, regiaoVars, scoreVars, filtroVars, consultaVars, classifVars, fontesVars, agendaVars, nomesVars, dedupVars, selecaoVars, coletaCompletaVars, identificacaoVars, requisicaoVars, rollupVars, cenarioVars, alinhamentoVars>>
foraFontes == <<schedVars, newsVars, trendVars, mentionVars, regiaoVars, scoreVars, filtroVars, consultaVars, classifVars, retencaoVars, agendaVars, nomesVars, dedupVars, selecaoVars, coletaCompletaVars, identificacaoVars, requisicaoVars, rollupVars, cenarioVars, alinhamentoVars>>
foraAgenda == <<schedVars, newsVars, trendVars, mentionVars, regiaoVars, scoreVars, filtroVars, consultaVars, classifVars, retencaoVars, fontesVars, nomesVars, dedupVars, selecaoVars, coletaCompletaVars, identificacaoVars, requisicaoVars, rollupVars, cenarioVars, alinhamentoVars>>
foraNomes == <<schedVars, newsVars, trendVars, mentionVars, regiaoVars, scoreVars, filtroVars, consultaVars, classifVars, retencaoVars, fontesVars, agendaVars, dedupVars, selecaoVars, coletaCompletaVars, identificacaoVars, requisicaoVars, rollupVars, cenarioVars, alinhamentoVars>>
foraDedup == <<schedVars, newsVars, trendVars, mentionVars, regiaoVars, scoreVars, filtroVars, consultaVars, classifVars, retencaoVars, fontesVars, agendaVars, nomesVars, selecaoVars, coletaCompletaVars, identificacaoVars, requisicaoVars, rollupVars, cenarioVars, alinhamentoVars>>
foraSelecao == <<schedVars, newsVars, trendVars, mentionVars, regiaoVars, scoreVars, filtroVars, consultaVars, classifVars, retencaoVars, fontesVars, agendaVars, nomesVars, dedupVars, coletaCompletaVars, identificacaoVars, requisicaoVars, rollupVars, cenarioVars, alinhamentoVars>>
foraColetaCompleta == <<schedVars, newsVars, trendVars, mentionVars, regiaoVars, scoreVars, filtroVars, consultaVars, classifVars, retencaoVars, fontesVars, agendaVars, nomesVars, dedupVars, selecaoVars, identificacaoVars, requisicaoVars, rollupVars, cenarioVars, alinhamentoVars>>
foraIdentificacao == <<schedVars, newsVars, trendVars, mentionVars, regiaoVars, scoreVars, filtroVars, consultaVars, classifVars, retencaoVars, fontesVars, agendaVars, nomesVars, dedupVars, selecaoVars, coletaCompletaVars, requisicaoVars, rollupVars, cenarioVars, alinhamentoVars>>
foraRequisicao == <<schedVars, newsVars, trendVars, mentionVars, regiaoVars, scoreVars, filtroVars, consultaVars, classifVars, retencaoVars, fontesVars, agendaVars, nomesVars, dedupVars, selecaoVars, coletaCompletaVars, identificacaoVars, rollupVars, cenarioVars, alinhamentoVars>>
foraRollup == <<schedVars, newsVars, trendVars, mentionVars, regiaoVars, scoreVars, filtroVars, consultaVars, classifVars, retencaoVars, fontesVars, agendaVars, nomesVars, dedupVars, selecaoVars, coletaCompletaVars, identificacaoVars, requisicaoVars, cenarioVars, alinhamentoVars>>
foraCenario == <<schedVars, newsVars, trendVars, mentionVars, regiaoVars, scoreVars, filtroVars, consultaVars, classifVars, retencaoVars, fontesVars, agendaVars, nomesVars, dedupVars, selecaoVars, coletaCompletaVars, identificacaoVars, requisicaoVars, rollupVars, alinhamentoVars>>
foraAlinhamento == <<schedVars, newsVars, trendVars, mentionVars, regiaoVars, scoreVars, filtroVars, consultaVars, classifVars, retencaoVars, fontesVars, agendaVars, nomesVars, dedupVars, selecaoVars, coletaCompletaVars, identificacaoVars, requisicaoVars, rollupVars, cenarioVars>>

(***************************************************************************)
(* Bounds                                                                  *)
(***************************************************************************)
\* total number of job executions (cron + manual) in a behaviour
MaxRuns == 2
\* the active politicians returned by get_politicos_ativos
PoliticosAtivos == {"p1"}
\* longest conteudo_completo, in characters
MaxConteudo == 1
\* candidate records merged by one collection before deduplication
MaxCandidatos == 2
\* topics one trending collection returns
MaxTopics == 2
\* last day of the clock
MaxClock == 1
\* politicians in the roster of one full news run
MaxRoster == 2
\* rows the store returns to get_noticias_politico
MaxPool == 4
\* largest limit asked of get_noticias_politico
MaxLimit == 2

(***************************************************************************)
(* Scheduler, job functions, job log                                       *)
(***************************************************************************)
\* job kinds modelled: the news job and the trending job
Tipos == {"noticias", "trending"}

\* id given to add_job for the job function of a kind
JobId(tipo) == IF tipo = "noticias" THEN "coleta_noticias" ELSE "coleta_trending"

JobIds == {JobId(t) : t \in Tipos}

\* tipo_coleta written by the endpoint: f"manual_{tipo}"
ManualTipo(tipo) == IF tipo = "noticias" THEN "manual_noticias" ELSE "manual_trending"

\* add_job is called without max_instances: APScheduler's default applies
JobMaxInstancesMut(job_id) == 2
JobMaxInstances(job_id) == 1

\* job_coleta_trending awaits three collectors in sequence
NumTrendingCollectors == 3

\* units of work of a job body: one per politician (after the roster fetch), or one per collector
NumUnits(tipo) == IF tipo = "noticias" THEN Cardinality(PoliticosAtivos) ELSE NumTrendingCollectors

ActivePcs == {"inicio", "body", "fim", "handler"}

NewRun(origem, tipo, api_log_id) ==
    [origem |-> origem, tipo |-> tipo, pc |-> "inicio", log_id |-> 0,
     api_log_id |-> api_log_id, idx |-> 0, erros |-> 0, persistidos |-> 0]

\* a coroutine that has returned or raised has no locals left: only how it ended
Ended(run, how) ==
    [origem |-> "none", tipo |-> "none", pc |-> how, log_id |-> 0,
     api_log_id |-> 0, idx |-> 0, erros |-> 0, persistidos |-> 0]

\* db.log_coleta_inicio: inserts a row in status iniciado, returns its id
LogColetaInicio(logs, tipo_coleta) ==
    Append(logs, [tipo_coleta |-> tipo_coleta, status |-> "iniciado",
                  mensagem |-> "none", registros |-> 0, finalizado |-> FALSE])

\* db.log_coleta_fim: updates the row with that id
LogColetaFim(logs, log_id, status, mensagem, registros) ==
    [logs EXCEPT ![log_id] = [@ EXCEPT !.status = status, !.mensagem = mensagem,
                                       !.registros = registros, !.finalizado = TRUE]]

\* status computed by the job function on the normal path
StatusFinal(tipo, erros) ==
    IF tipo = "noticias"
    THEN (IF erros = 0 THEN "sucesso" ELSE "parcial")
    ELSE "sucesso"

\* the executor's bookkeeping when a submitted job ends (success, error or cancel)
Release(inst, r) ==
    IF runs[r].origem = "cron"
    THEN [inst EXCEPT ![JobId(runs[r].tipo)] = @ - 1]
    ELSE inst

InitSched ==
    /\ runs = <<>>
    /\ coleta_logs = <<>>
    /\ instances = [j \in JobIds |-> 0]
    /\ running = TRUE
    /\ skipped = [j \in JobIds |-> FALSE]
    /\ loop = 0

\* A cron trigger of the job fires: the scheduler submits it to the executor,
\* which refuses when max_instances runs of the job are in flight.
CronFire(tipo) ==
    /\ running
    /\ loop = 0
    /\ IF instances[JobId(tipo)] >= JobMaxInstances(JobId(tipo))
       THEN /\ skipped' = [skipped EXCEPT ![JobId(tipo)] = TRUE]
            /\ UNCHANGED <<runs, instances>>
       ELSE /\ Len(runs) < MaxRuns
            /\ runs' = Append(runs, NewRun("cron", tipo, 0))
            /\ instances' = [instances EXCEPT ![JobId(tipo)] = @ + 1]
            /\ UNCHANGED skipped
    /\ UNCHANGED <<coleta_logs, running, loop>>

\* POST /coleta/executar: logs manual_<tipo>, adds executar_coleta_manual as a
\* background task and returns the log id.
ExecutarColeta(tipo) ==
    /\ loop = 0
    /\ Len(runs) < MaxRuns
    /\ coleta_logs' = LogColetaInicio(coleta_logs, ManualTipo(tipo))
    /\ runs' = Append(runs, NewRun("manual", tipo, Len(coleta_logs) + 1))
    /\ UNCHANGED <<instances, running, skipped, loop>>

\* first statement of every job function, outside its try block; the news job
\* goes on synchronously to the roster fetch, the trending job suspends in
\* its first collector
JobLogInicio(r) ==
    /\ runs[r].pc = "inicio"
    /\ loop = 0
    /\ \E store_ok \in BOOLEAN :
         IF store_ok
         THEN /\ coleta_logs' = LogColetaInicio(coleta_logs, runs[r].tipo)
              /\ runs' = [runs EXCEPT ![r].pc = "body", ![r].log_id = Len(coleta_logs) + 1]
              /\ loop' = IF runs[r].tipo = "noticias" THEN r ELSE 0
              /\ UNCHANGED instances
         ELSE /\ runs' = [runs EXCEPT ![r] = Ended(@, "escaped")]
              /\ instances' = Release(instances, r)
              /\ UNCHANGED <<coleta_logs, loop>>
    /\ UNCHANGED <<running, skipped>>

\* news_aggregator.executar_coleta_completa up to its first await:
\* db.get_politicos_ativos, whose exception the outer except block counts
NewsRoster(r) ==
    /\ runs[r].pc = "body"
    /\ runs[r].tipo = "noticias"
    /\ runs[r].idx = 0
    /\ loop = r
    /\ \E store_ok \in BOOLEAN :
         IF store_ok /\ PoliticosAtivos # {}
         THEN /\ runs' = [runs EXCEPT ![r].idx = 1]
              /\ loop' = 0
         ELSE /\ runs' = [runs EXCEPT ![r].erros = @ + (IF store_ok THEN 0 ELSE 1),
                                      ![r].pc = "fim"]
              /\ UNCHANGED loop
    /\ UNCHANGED <<coleta_logs, instances, running, skipped>>

\* one iteration of the loop over the politicians: the batches it persisted
\* (n rows) and whether it raised, which the inner except block counts
NewsPolitico(r) ==
    /\ runs[r].pc = "body"
    /\ runs[r].tipo = "noticias"
    /\ runs[r].idx >= 1
    /\ loop = 0
    /\ \E n \in 0..1, exc \in BOOLEAN :
         runs' = [runs EXCEPT ![r].persistidos = @ + n,
                              ![r].erros = @ + (IF exc THEN 1 ELSE 0),
                              ![r].idx = @ + 1,
                              ![r].pc = IF runs[r].idx >= NumUnits("noticias")
                                        THEN "fim" ELSE "body"]
    /\ loop' = IF runs[r].idx >= NumUnits("noticias") THEN r ELSE 0
    /\ UNCHANGED <<coleta_logs, instances, running, skipped>>

\* one collector of job_coleta_trending: executar_coleta returns its count, or
\* raises to the job's except block
TrendingBodyStep(r) ==
    /\ runs[r].pc = "body"
    /\ runs[r].tipo = "trending"
    /\ loop = 0
    /\ \E n \in 0..1, exc \in BOOLEAN :
         IF exc
         THEN /\ runs' = [runs EXCEPT ![r].pc = "handler"]
              /\ loop' = r
         ELSE /\ runs' = [runs EXCEPT ![r].persistidos = @ + n,
                                      ![r].idx = @ + 1,
                                      ![r].pc = IF runs[r].idx + 1 >= NumUnits("trending")
                                                THEN "fim" ELSE "body"]
              /\ loop' = IF runs[r].idx + 1 >= NumUnits("trending") THEN r ELSE 0
    /\ UNCHANGED <<coleta_logs, instances, running, skipped>>

\* db.log_coleta_fim(log_id, status, mensagem, total) at the end of the try block
JobLogFim(r) ==
    /\ runs[r].pc = "fim"
    /\ loop = r
    /\ \E store_ok \in BOOLEAN :
         IF store_ok
         THEN /\ coleta_logs' = LogColetaFim(coleta_logs, runs[r].log_id,
                                    StatusFinal(runs[r].tipo, runs[r].erros),
                                    "stats", runs[r].persistidos)
              /\ runs' = [runs EXCEPT ![r] = Ended(@, "done")]
              /\ instances' = Release(instances, r)
              /\ loop' = 0
         ELSE /\ runs' = [runs EXCEPT ![r].pc = "handler"]
              /\ UNCHANGED <<coleta_logs, instances, loop>>
    /\ UNCHANGED <<running, skipped>>

\* except Exception as e: db.log_coleta_fim(log_id, "erro", str(e), 0)
JobHandler(r) ==
    /\ runs[r].pc = "handler"
    /\ loop = r
    /\ \E store_ok \in BOOLEAN :
         IF store_ok
         THEN /\ coleta_logs' = LogColetaFim(coleta_logs, runs[r].log_id, "erro", "exc", 0)
              /\ runs' = [runs EXCEPT ![r] = Ended(@, "done")]
         ELSE /\ runs' = [runs EXCEPT ![r] = Ended(@, "escaped")]
              /\ UNCHANGED coleta_logs
    /\ instances' = Release(instances, r)
    /\ loop' = 0
    /\ UNCHANGED <<running, skipped>>

\* shutdown_scheduler: scheduler.shutdown() cancels the executor's pending
\* futures; a job suspended at an await (or not started yet) gets
\* CancelledError, which is not an Exception and passes every except block
Cancel(run) ==
    IF run.origem = "cron" /\ run.pc \in {"inicio", "body"} THEN Ended(run, "cancelled") ELSE run

ShutdownScheduler ==
    /\ running
    /\ loop = 0
    /\ running' = FALSE
    /\ runs' = [r \in DOMAIN runs |-> Cancel(runs[r])]
    /\ instances' = [j \in JobIds |-> 0]
    /\ UNCHANGED <<coleta_logs, skipped, loop>>

NextSched ==
    \/ \E t \in Tipos : CronFire(t) /\ UNCHANGED foraSched
    \/ \E t \in Tipos : ExecutarColeta(t) /\ UNCHANGED foraSched
    \/ \E r \in DOMAIN runs : JobLogInicio(r) /\ UNCHANGED foraSched
    \/ \E r \in DOMAIN runs : NewsRoster(r) /\ UNCHANGED foraSched
    \/ \E r \in DOMAIN runs : NewsPolitico(r) /\ UNCHANGED foraSched
    \/ \E r \in DOMAIN runs : TrendingBodyStep(r) /\ UNCHANGED foraSched
    \/ \E r \in DOMAIN runs : JobLogFim(r) /\ UNCHANGED foraSched
    \/ \E r \in DOMAIN runs : JobHandler(r) /\ UNCHANGED foraSched
    \/ ShutdownScheduler /\ UNCHANGED foraSched

(***************************************************************************)
(* News store: URL canonicalization, in-batch deduplication, batch upsert  *)
(***************************************************************************)
\* A URL, by the parts _normalize_url looks at. wrap: the URL is a Google
\* News wrapper https://news.google.com/articles/abc?url=<the URL described
\* by the other fields>; www: the host starts with "www."; slash: the path
\* ends with "/". Two different records are two different URL strings.
Url(wrap, www, host, path, slash) ==
    [wrap |-> wrap, www |-> www, host |-> host, path |-> path, slash |-> slash]

Urls ==
    { Url(TRUE, FALSE, "site.com", "/x", TRUE),
      Url(FALSE, TRUE, "site.com", "/x", FALSE),
      Url(FALSE, FALSE, "site.com", "/x", FALSE),
      Url(FALSE, FALSE, "site.com", "/y", FALSE),
      Url(FALSE, TRUE, "site.com", "/y", TRUE) }

\* _normalize_url: a news.google.* URL whose url parameter starts with http
\* is replaced by that parameter; the path loses its trailing "/", the host
\* its leading "www."; the key is host + path
NormalizeUrl(url) ==
    LET parsed == IF url.wrap THEN [url EXCEPT !.wrap = FALSE] ELSE url
        clean_path == [parsed EXCEPT !.slash = FALSE]
        netloc == [clean_path EXCEPT !.www = FALSE]
    IN  <<netloc.host, netloc.path>>

Keys == {NormalizeUrl(u) : u \in Urls}

Items == [url : Urls, conteudo : 0..MaxConteudo]

\* position of the record of url_map with that key, 0 if none
KeyIndex(url_map, key) ==
    IF \E i \in DOMAIN url_map : NormalizeUrl(url_map[i].url) = key
    THEN CHOOSE i \in DOMAIN url_map : NormalizeUrl(url_map[i].url) = key
    ELSE 0

\* a fold that replaces the record kept by a later one that is as long
RECURSIVE RemoveDuplicatesFromMut(_, _)
RemoveDuplicatesFromMut(noticias_in, url_map) ==
    IF noticias_in = <<>> THEN url_map
    ELSE LET noticia == Head(noticias_in)
             i == KeyIndex(url_map, NormalizeUrl(noticia.url))
         IN  RemoveDuplicatesFromMut(Tail(noticias_in),
                 IF i = 0 THEN Append(url_map, noticia)
                 ELSE IF noticia.conteudo >= url_map[i].conteudo
                      THEN [url_map EXCEPT ![i] = noticia]
                      ELSE url_map)

\* _remove_duplicates: url_map keeps, per key, the first record seen, replaced
\* by a later one with strictly more conteudo_completo
RECURSIVE RemoveDuplicatesFrom(_, _)
RemoveDuplicatesFrom(noticias_in, url_map) ==
    IF noticias_in = <<>> THEN url_map
    ELSE LET noticia == Head(noticias_in)
             i == KeyIndex(url_map, NormalizeUrl(noticia.url))
         IN  RemoveDuplicatesFrom(Tail(noticias_in),
                 IF i = 0 THEN Append(url_map, noticia)
                 ELSE IF noticia.conteudo > url_map[i].conteudo
                      THEN [url_map EXCEPT ![i] = noticia]
                      ELSE url_map)

RemoveDuplicates(noticias_in) == RemoveDuplicatesFrom(noticias_in, <<>>)

\* upsert(..., on_conflict="url"): a row with the same url takes the values
\* of the new record, any other url is inserted
UpsertNoticias(table, batch) ==
    {row \in table : ~\E i \in DOMAIN batch : batch[i].url = row.url}
    \cup {[url |-> batch[i].url, conteudo |-> batch[i].conteudo] : i \in DOMAIN batch}

\* longest conteudo per key among the records of a batch and what came before
MaiorIngerido(antes, batch) ==
    [k \in Keys |->
        LET ls == {batch[i].conteudo : i \in {j \in DOMAIN batch : NormalizeUrl(batch[j].url) = k}}
                  \cup {antes[k]}
        IN  CHOOSE m \in ls : \A l \in ls : l <= m]

Candidatos == UNION {[1..n -> Items] : n \in 1..MaxCandidatos}

InitNews ==
    /\ noticias = {}
    /\ maior_ingerido = [k \in Keys |-> -1]

\* one collection of a scope: the merged candidates are deduplicated and
\* handed to db.insert_noticias_batch, which returns 0 when the upsert raises
ColetarNoticias ==
    \E cands \in Candidatos, store_ok \in BOOLEAN :
        LET batch == RemoveDuplicates(cands) IN
        IF store_ok
        THEN /\ noticias' = UpsertNoticias(noticias, batch)
             /\ maior_ingerido' = MaiorIngerido(maior_ingerido, batch)
        ELSE UNCHANGED <<noticias, maior_ingerido>>

NextNews == ColetarNoticias /\ UNCHANGED foraNews

(***************************************************************************)
(* Trending topics: replacement of a category and its readers              *)
(***************************************************************************)
\* categories of portal_trending_topics written by the trending collectors
Categories == {"politica", "twitter"}

Titles == {"a", "b"}

TopicLists == UNION {[1..n -> Titles] : n \in 0..MaxTopics}

Idle == [pc |-> "idle", category |-> "none", topics |-> <<>>]

InitTrend ==
    /\ trending = [c \in Categories |-> <<>>]
    /\ upd = Idle
    /\ deixado = [c \in Categories |-> <<>>]
    /\ leitura = [category |-> "none", topics |-> <<>>]

\* executar_coleta of a collector: with no topic found the table is left
\* alone; otherwise update_trending_topics starts with its delete request,
\* which removes the rows of the category or raises (return 0)
UpdateTrendingDelete(c) ==
    /\ upd.pc = "idle"
    /\ \E topics \in TopicLists, store_ok \in BOOLEAN :
         IF topics # <<>> /\ store_ok
         THEN /\ trending' = [trending EXCEPT ![c] = <<>>]
              /\ upd' = [pc |-> "insert", category |-> c, topics |-> topics]
         ELSE UNCHANGED <<trending, upd>>
    /\ UNCHANGED <<deixado, leitura>>

\* the insert request of update_trending_topics: the new rows appear, or the
\* request raises and the category stays empty (return 0)
UpdateTrendingInsert ==
    /\ upd.pc = "insert"
    /\ \E store_ok \in BOOLEAN :
         IF store_ok
         THEN /\ trending' = [trending EXCEPT ![upd.category] = upd.topics]
              /\ deixado' = [deixado EXCEPT ![upd.category] = upd.topics]
         ELSE UNCHANGED <<trending, deixado>>
    /\ upd' = Idle
    /\ UNCHANGED leitura

\* get_trending_topics(category): the rows of the category, by rank
GetTrendingTopics(c) ==
    /\ leitura' = [category |-> c, topics |-> trending[c]]
    /\ UNCHANGED <<trending, upd, deixado>>

NextTrend ==
    \/ \E c \in Categories : UpdateTrendingDelete(c) /\ UNCHANGED foraTrend
    \/ UpdateTrendingInsert /\ UNCHANGED foraTrend
    \/ \E c \in Categories : GetTrendingTopics(c) /\ UNCHANGED foraTrend

(***************************************************************************)
(* Social mentions: collection per politician, batch upsert, topic roll-up *)
(***************************************************************************)
\* the politicians returned by get_politicos_diretoriaja
PoliticosDiretoriaja == {"p1", "p2"}

\* politico["id"], the integer id the collector works with
Id(p) == <<"id", p>>
\* politico["uuid"]
Uuid(p) == <<"uuid", p>>
\* get_politico_uuid: the uuid of the politician with that integer id
GetPoliticoUuid(politico_id) == <<"uuid", politico_id[2]>>

\* _agregar_topicos_politico(periodo_dias = 7)
PeriodoDias == 7

\* what the providers return: Bluesky posts (a post can name several
\* politicians) and tweets, with engagement_score and posted_at
BlueskyPosts == {"b1"}
Tweets == {"t1", "t2"}
Provider ==
    [m \in BlueskyPosts \cup Tweets |->
        IF m = "b1" THEN [plataforma |-> "bluesky", engagement_score |-> 1, posted_at |-> 0]
        ELSE IF m = "t1" THEN [plataforma |-> "twitter", engagement_score |-> 1, posted_at |-> 0]
        ELSE [plataforma |-> "twitter", engagement_score |-> 2, posted_at |-> 1]]

\* a row of social_mentions; collected_at is the column default at insertion
Mention(politico_id, mention_id, assunto, sentimento, collected_at) ==
    [politico_id |-> politico_id,
     plataforma |-> Provider[mention_id].plataforma,
     mention_id |-> mention_id,
     assunto |-> assunto,
     sentimento |-> sentimento,
     engagement_score |-> Provider[mention_id].engagement_score,
     posted_at |-> Provider[mention_id].posted_at,
     collected_at |-> collected_at]

\* the unique constraints social_mentions may have: the columns named by
\* insert_social_mentions_batch, or those named by the Apify script
UniqueConstraints == {"plataforma,mention_id", "politico_id,plataforma,mention_id"}

\* two rows that conflict on the columns of on_conflict
Conflict(row, m, on_conflict) ==
    /\ row.plataforma = m.plataforma
    /\ row.mention_id = m.mention_id
    /\ (on_conflict = "politico_id,plataforma,mention_id" => row.politico_id = m.politico_id)

\* upsert of one row: a conflicting row takes the values sent (collected_at
\* is not sent and stays), otherwise the row is inserted
UpsertMention(table, m, on_conflict) ==
    LET old == {row \in table : Conflict(row, m, on_conflict)} IN
    IF old = {} THEN table \cup {m}
    ELSE (table \ old) \cup {[m EXCEPT !.collected_at = row.collected_at] : row \in old}

RECURSIVE UpsertMentions(_, _, _)
UpsertMentions(table, batch, on_conflict) ==
    IF batch = {} THEN table
    ELSE LET m == CHOOSE x \in batch : TRUE
         IN  UpsertMentions(UpsertMention(table, m, on_conflict), batch \ {m}, on_conflict)

\* insert_social_mentions_batch: upsert on (plataforma, mention_id); the
\* request raises, and 0 is returned, when the table has no such constraint
InsertSocialMentionsBatch(table, batch, constraint, store_ok) ==
    IF batch = {} \/ ~store_ok \/ constraint # "plataforma,mention_id" THEN table
    ELSE UpsertMentions(table, batch, "plataforma,mention_id")

\* get_social_mentions_by_periodo: rows of the politician's uuid collected in
\* [inicio, fim]
GetSocialMentionsByPeriodo(table, politico_id, inicio, fim) ==
    {row \in table : /\ row.politico_id = GetPoliticoUuid(politico_id)
                     /\ row.collected_at >= inicio
                     /\ row.collected_at <= fim}

RECURSIVE EngagementTotal(_)
EngagementTotal(mencoes) ==
    IF mencoes = {} THEN 0
    ELSE LET m == CHOOSE x \in mencoes : TRUE
         IN  m.engagement_score + EngagementTotal(mencoes \ {m})

AssuntoDe(mencao) == IF mencao.assunto = "none" THEN "Outro" ELSE mencao.assunto

\* the aggregation of _agregar_topicos_politico: one topic per assunto
Agregados(mencoes, politico_id, inicio, agora) ==
    { LET grupo == {m \in mencoes : AssuntoDe(m) = a} IN
      [politico_id |-> politico_id,
       assunto |-> a,
       total_mencoes |-> Cardinality(grupo),
       mencoes_positivas |-> Cardinality({m \in grupo : m.sentimento = "positivo"}),
       mencoes_negativas |-> Cardinality({m \in grupo : m.sentimento = "negativo"}),
       mencoes_neutras |-> Cardinality({m \in grupo : m.sentimento \notin {"positivo", "negativo"}}),
       engagement_total |-> EngagementTotal(grupo),
       ultima_mencao |-> CHOOSE t \in {m.posted_at : m \in grupo} :
                            \A m \in grupo : m.posted_at <= t,
       periodo_inicio |-> inicio,
       periodo_fim |-> agora]
      : a \in {AssuntoDe(m) : m \in mencoes} }

\* upsert_mention_topic: upsert on (politico_id, assunto, periodo_inicio)
UpsertMentionTopic(table, topic) ==
    {row \in table : ~(/\ row.politico_id = topic.politico_id
                       /\ row.assunto = topic.assunto
                       /\ row.periodo_inicio = topic.periodo_inicio)}
    \cup {topic}

RECURSIVE SalvarAgregacoes(_, _)
SalvarAgregacoes(table, topics) ==
    IF topics = {} THEN table
    ELSE LET t == CHOOSE x \in topics : TRUE
         IN  SalvarAgregacoes(UpsertMentionTopic(table, t), topics \ {t})

InitMentions ==
    /\ social_mentions = {}
    /\ mention_topics = {}
    /\ unique_mention \in UniqueConstraints
    /\ now = 0
    /\ agregado = "none"

\* time passes
Tick ==
    /\ now < MaxClock
    /\ now' = now + 1
    /\ UNCHANGED <<social_mentions, mention_topics, unique_mention, agregado>>

\* collect_twitter_mentions_apify.py saving one tweet of a politician: upsert
\* on (politico_id, plataforma, mention_id); when that raises, a plain
\* insert; when that raises too, the tweet is dropped
SalvarTweet(p, t) ==
    LET m == Mention(Uuid(p), t, "none", "none", now)
        dup == \E row \in social_mentions : Conflict(row, m, unique_mention)
    IN
    /\ \E store_ok \in BOOLEAN :
         social_mentions' =
            IF ~store_ok THEN social_mentions
            ELSE IF unique_mention = "politico_id,plataforma,mention_id"
                 THEN UpsertMention(social_mentions, m, "politico_id,plataforma,mention_id")
                 ELSE IF dup THEN social_mentions ELSE social_mentions \cup {m}
    /\ agregado' = IF social_mentions' = social_mentions THEN agregado ELSE "none"
    /\ UNCHANGED <<mention_topics, unique_mention, now>>

\* one politician of executar_coleta_completa: the mentions found are saved
\* in one batch, then _agregar_topicos_politico rolls up the last 7 days
ColetaPolitico(p) ==
    \E found \in SUBSET BlueskyPosts, assunto \in {"Saude", "none"},
       store_ok \in BOOLEAN, read_ok \in BOOLEAN :
        LET mencoes == {Mention(Id(p), b, assunto, IF assunto = "none" THEN "none" ELSE "positivo", now)
                            : b \in found}
            agora == now
            inicio == agora - PeriodoDias
            salvas == InsertSocialMentionsBatch(social_mentions, mencoes, unique_mention, store_ok)
            lidas == IF read_ok THEN GetSocialMentionsByPeriodo(salvas, Id(p), inicio, agora) ELSE {}
            agregados == Agregados(lidas, Id(p), inicio, agora)
        IN
        \E gravados \in SUBSET agregados :
            /\ social_mentions' = salvas
            /\ mention_topics' = SalvarAgregacoes(mention_topics, gravados)
            /\ agregado' = IF read_ok /\ gravados = agregados THEN p
                           ELSE IF salvas = social_mentions THEN agregado ELSE "none"
            /\ UNCHANGED <<unique_mention, now>>

NextMentions ==
    \/ Tick /\ UNCHANGED foraMentions
    \/ \E p \in PoliticosDiretoriaja, t \in Tweets : SalvarTweet(p, t) /\ UNCHANGED foraMentions
    \/ \E p \in PoliticosDiretoriaja : ColetaPolitico(p) /\ UNCHANGED foraMentions

(***************************************************************************)
(* Full news run: region collections shared by the politicians of the run  *)
(***************************************************************************)
\* politico.estado values of the roster ("none": not filled in)
Estados == {"SP", "RJ"}

\* _get_capital_estado: CAPITAIS_POR_ESTADO
CapitalEstado(estado) ==
    IF estado = "SP" THEN "Sao Paulo"
    ELSE IF estado = "RJ" THEN "Rio de Janeiro"
    ELSE "none"

Cidades == {CapitalEstado(e) : e \in Estados} \cup {"Campinas"}

\* _get_escopo_noticia: ESCOPO_POR_FUNCAO, a cargo that is not listed gets
\* the default scope (city only)
EscopoNoticia(funcao) ==
    IF funcao \in {"Senador", "Vereador"}
    THEN [brasil |-> funcao = "Senador", estado |-> TRUE, cidade |-> TRUE]
    ELSE [brasil |-> FALSE, estado |-> FALSE, cidade |-> TRUE]

Politicos ==
    [estado : Estados \cup {"none"}, cidade : {"Campinas", "none"}, funcao : {"Senador", "Assessor"}]

Rosters == UNION {[1..n -> Politicos] : n \in 1..MaxRoster}

DrvIdle ==
    [pc |-> "idle", politicos |-> <<>>, idx |-> 0,
     estados_processados |-> {}, cidades_processadas |-> {}]

InitRegiao ==
    /\ drv = DrvIdle
    /\ invocacoes = [r \in Estados \cup Cidades |-> 0]

\* executar_coleta_completa starts: the roster is read, the sets of regions
\* already processed are created empty
IniciarColetaCompleta ==
    /\ drv.pc \in {"idle", "done"}
    /\ \E politicos \in Rosters :
         drv' = [pc |-> "loop", politicos |-> politicos, idx |-> 1,
                 estados_processados |-> {}, cidades_processadas |-> {}]
    /\ invocacoes' = [r \in Estados \cup Cidades |-> 0]

\* one politician of the loop. Each collection it awaits can raise; the
\* exception ends the iteration (except of the loop body). A region is added
\* to its set after its collection returned.
ColetaRegioes(politico, raises) ==
    LET escopo == EscopoNoticia(politico.funcao)
        estado == politico.estado
        faz_estado == /\ raises # "politico"
                      /\ escopo.estado /\ estado # "none"
                      /\ estado \notin drv.estados_processados
        estado_raises == faz_estado /\ raises = "estado"
        cidade_capital == IF estado # "none" THEN CapitalEstado(estado) ELSE politico.cidade
        faz_cidade == /\ raises # "politico" /\ ~estado_raises
                      /\ escopo.cidade /\ cidade_capital # "none"
                      /\ cidade_capital \notin drv.cidades_processadas
    IN  [estado |-> faz_estado,
         estado_ok |-> faz_estado /\ ~estado_raises,
         cidade |-> faz_cidade,
         cidade_ok |-> faz_cidade /\ raises # "cidade",
         cidade_capital |-> cidade_capital]

ProcessaPolitico ==
    /\ drv.pc = "loop"
    /\ \E raises \in {"none", "politico", "estado", "cidade"} :
         LET politico == drv.politicos[drv.idx]
             c == ColetaRegioes(politico, raises)
             fim == drv.idx = Len(drv.politicos)
         IN
         /\ invocacoes' =
              [r \in Estados \cup Cidades |->
                  invocacoes[r]
                  + (IF c.estado /\ r = politico.estado THEN 1 ELSE 0)
                  + (IF c.cidade /\ r = c.cidade_capital THEN 1 ELSE 0)]
         /\ drv' = [drv EXCEPT
                      !.pc = IF fim THEN "done" ELSE "loop",
                      !.idx = IF fim THEN @ ELSE @ + 1,
                      !.estados_processados =
                          IF c.estado_ok THEN @ \cup {politico.estado} ELSE @,
                      !.cidades_processadas =
                          IF c.cidade_ok THEN @ \cup {c.cidade_capital} ELSE @]

NextRegiao ==
    \/ IniciarColetaCompleta /\ UNCHANGED foraRegiao
    \/ ProcessaPolitico /\ UNCHANGED foraRegiao

(***************************************************************************)
(* Relevance engine: four subscores and their weighted sum                 *)
(* Scores are in hundredths of a point, weights in hundredths              *)
(***************************************************************************)
\* RelevanceWeights: DEFAULT_WEIGHTS, BREAKING_NEWS_WEIGHTS, VERIFIED_NEWS_WEIGHTS
RelevanceWeights ==
    { [recencia |-> 25, mencao |-> 35, fonte |-> 25, engajamento |-> 15],
      [recencia |-> 40, mencao |-> 30, fonte |-> 20, engajamento |-> 10],
      [recencia |-> 20, mencao |-> 30, fonte |-> 40, engajamento |-> 10] }

\* __post_init__: the weights add up to 1.0 within 0.01
WeightsValid(w) ==
    LET total == w.recencia + w.mencao + w.fonte + w.engajamento
    IN  total - 100 <= 1 /\ 100 - total <= 1

Max2(a, b) == IF a >= b THEN a ELSE b
Min2(a, b) == IF a <= b THEN a ELSE b

\* round(x, 2) of x = n / d points, in hundredths
Round2(n, d) == (2 * 100 * n + d) \div (2 * d)

\* calcular_score_recencia: 50 without a date, otherwise 100 minus 2 points
\* per hour since publication, at least 0. horas < 0: published in the future
ScoreRecencia(publicado) ==
    IF ~publicado.tem THEN 5000
    ELSE Round2(Max2(0, 100 - publicado.horas * 2), 1)

\* calcular_score_mencao: 50 for the title, 10 per mention in the body up to 50
ScoreMencao(mencao_titulo, mencoes_conteudo) ==
    Round2((IF mencao_titulo THEN 50 ELSE 0) + Min2(50, mencoes_conteudo * 10), 1)

\* calcular_score_fonte: peso (in tenths) times 50, at most 100
ScoreFonte(peso) == Round2(Min2(1000, peso * 50), 10)

\* calcular_score_engajamento: a tenth of the weighted interactions, at most 100
ScoreEngajamento(e) ==
    Round2(Min2(1000, e.compartilhamentos * 3 + e.comentarios * 2 + e.likes), 10)

\* the weighted sum before rounding, in 1/10000 of a point
SomaPonderada(sc, w) ==
    sc.score_recencia * w.recencia + sc.score_mencao * w.mencao
    + sc.score_fonte * w.fonte + sc.score_engajamento * w.engajamento

\* calcular_relevancia
CalcularRelevancia(noticia, w) ==
    LET sc == [score_recencia |-> ScoreRecencia(noticia.publicado_em),
               score_mencao |-> ScoreMencao(noticia.mencao_titulo, noticia.mencoes_conteudo),
               score_fonte |-> ScoreFonte(noticia.peso),
               score_engajamento |-> ScoreEngajamento(noticia.engajamento)]
    IN  [score_recencia |-> sc.score_recencia,
         score_mencao |-> sc.score_mencao,
         score_fonte |-> sc.score_fonte,
         score_engajamento |-> sc.score_engajamento,
         relevancia_total |-> Round2(SomaPonderada(sc, w), 10000)]

\* the items scored: published 3 hours ahead of the clock up to 60 hours ago
\* or undated, mentions, weight of the source 0.0 to 2.0, interactions
Publicados ==
    {[tem |-> FALSE, horas |-> 0]} \cup {[tem |-> TRUE, horas |-> h] : h \in {-3, 0, 1, 49, 60}}
Engajamentos ==
    [compartilhamentos : {0, 40, 1000}, comentarios : {0}, likes : {0, 7}]
NoticiasPontuadas ==
    [publicado_em : Publicados, mencao_titulo : BOOLEAN, mencoes_conteudo : {0, 1, 6},
     peso : {0, 10, 15, 20}, engajamento : Engajamentos]

\* no item scored yet
InitScore == pontuacao = [feita |-> FALSE]

\* the engine scores an item (one item in each behaviour)
Pontuar ==
    /\ ~pontuacao.feita
    /\ \E noticia \in NoticiasPontuadas, w \in RelevanceWeights :
          /\ WeightsValid(w)
          /\ pontuacao' = [feita |-> TRUE, noticia |-> noticia, weights |-> w,
                            scores |-> CalcularRelevancia(noticia, w)]

NextScore == Pontuar /\ UNCHANGED foraScore

(***************************************************************************)
(* Politician and competitor scopes: the mention-quality filter            *)
(***************************************************************************)
ArtigoUrls == {"a", "b"}

\* what analyze_mentions finds for the name searched
Analises == [mencao_titulo : BOOLEAN, mencao_conteudo : {0, 1, 3}]

\* processar_noticias: the item with its mention analysis and score_mencao;
\* without a name (region scopes) nothing is analysed
Processada(url, analise, com_nome, tipo) ==
    [url |-> url,
     tipo |-> tipo,
     mencao_titulo |-> com_nome /\ analise.mencao_titulo,
     mencao_conteudo |-> IF com_nome THEN analise.mencao_conteudo ELSE 0,
     score_mencao |-> IF com_nome
                      THEN ScoreMencao(analise.mencao_titulo, analise.mencao_conteudo)
                      ELSE 0]

\* the quality filter of coletar_noticias_politico (score_mencao in hundredths)
FiltroQualidadeMut(noticia) == TRUE
FiltroQualidade(noticia) ==
    noticia.mencao_titulo \/ noticia.mencao_conteudo > 0 \/ noticia.score_mencao > 2000

\* the deduplicated candidates of one collection: an analysis per url found
CandidatosEscopo == UNION {[us -> Analises] : us \in SUBSET ArtigoUrls}

\* coletar_noticias_politico / coletar_noticias_concorrentes: the items kept
\* by the filter, tagged with the scope
ColetarNoticiasPolitico(cands, tipo) ==
    {n \in {Processada(u, cands[u], TRUE, tipo) : u \in DOMAIN cands} : FiltroQualidade(n)}

\* coletar_noticias_cidade / _estado / _politicas_gerais: no name, no filter
ColetarNoticiasRegiao(cands, tipo) ==
    {Processada(u, cands[u], FALSE, tipo) : u \in DOMAIN cands}

\* insert_noticias_batch on rows with a scope: upsert on url
UpsertEscopo(table, batch) ==
    {row \in table : ~\E n \in batch : n.url = row.url} \cup batch

InitFiltro ==
    /\ escopo_rows = {}
    /\ descartadas = 0

\* collection of a politician or of a competitor, then the batch insert,
\* which returns 0 when the request raises
ColetaEscopoPolitico(tipo) ==
    \E cands \in CandidatosEscopo, store_ok \in BOOLEAN :
        LET emitidas == ColetarNoticiasPolitico(cands, tipo) IN
        /\ escopo_rows' = IF store_ok THEN UpsertEscopo(escopo_rows, emitidas) ELSE escopo_rows
        /\ descartadas' = Cardinality(DOMAIN cands) - Cardinality(emitidas)

\* collection of a city, a state or the general news, then the batch insert
ColetaEscopoRegiao(tipo) ==
    \E cands \in CandidatosEscopo, store_ok \in BOOLEAN :
        /\ escopo_rows' = IF store_ok
                          THEN UpsertEscopo(escopo_rows, ColetarNoticiasRegiao(cands, tipo))
                          ELSE escopo_rows
        /\ descartadas' = 0

NextFiltro ==
    \/ \E tipo \in {"politico", "concorrente"} : ColetaEscopoPolitico(tipo) /\ UNCHANGED foraFiltro
    \/ \E tipo \in {"cidade", "estado", "geral"} : ColetaEscopoRegiao(tipo) /\ UNCHANGED foraFiltro

(***************************************************************************)
(* Reading a politician's news: round-robin over the sources               *)
(***************************************************************************)
\* a row of the pool: url, fonte_nome ("none": NULL), relevancia_total
FonteNomes == {"g1", "uol", "none"}

\* the key of the grouping: fonte_nome or fonte_id or "desconhecida"
FonteDe(noticia) == IF noticia.fonte_nome = "none" THEN "desconhecida" ELSE noticia.fonte_nome

\* the rows of one source, in the order of the pool
PorFonte(rows, fonte) == SelectSeq(rows, LAMBDA n : FonteDe(n) = fonte)

\* the keys of por_fonte, in insertion order
RECURSIVE FontesVistas(_, _)
FontesVistas(rows, acc) ==
    IF rows = <<>> THEN acc
    ELSE LET f == FonteDe(Head(rows))
         IN  FontesVistas(Tail(rows),
                          IF \E i \in DOMAIN acc : acc[i] = f THEN acc ELSE Append(acc, f))

RECURSIVE MelhorScore(_)
MelhorScore(lista) ==
    IF Len(lista) = 1 THEN lista[1].relevancia_total
    ELSE Max2(lista[1].relevancia_total, MelhorScore(Tail(lista)))

\* insertion of a source into a list kept by best score, highest first; a
\* source goes after the sources of the same score (sorted is stable)
RECURSIVE InsereFonte(_, _, _)
InsereFonte(ordenadas, f, rows) ==
    IF ordenadas = <<>> THEN <<f>>
    ELSE IF MelhorScore(PorFonte(rows, f)) > MelhorScore(PorFonte(rows, Head(ordenadas)))
         THEN <<f>> \o ordenadas
         ELSE <<Head(ordenadas)>> \o InsereFonte(Tail(ordenadas), f, rows)

RECURSIVE OrdenaFontes(_, _, _)
OrdenaFontes(fontes, ordenadas, rows) ==
    IF fontes = <<>> THEN ordenadas
    ELSE OrdenaFontes(Tail(fontes), InsereFonte(ordenadas, Head(fontes), rows), rows)

FontesOrdenadas(rows) == OrdenaFontes(FontesVistas(rows, <<>>), <<>>, rows)

\* the inner while: first position from idx on whose url was not seen yet,
\* Len + 1 if there is none
RECURSIVE ProximaValida(_, _, _)
ProximaValida(lista_fonte, idx, urls_vistas) ==
    IF idx > Len(lista_fonte) THEN idx
    ELSE IF lista_fonte[idx].url \notin urls_vistas THEN idx
    ELSE ProximaValida(lista_fonte, idx + 1, urls_vistas)

\* the round-robin loop. k: position in fontes_ordenadas of the pass under
\* way; st: [resultado, urls_vistas, indices, adicionou_alguma]
RECURSIVE RoundRobin(_, _, _, _, _)
RoundRobin(rows, fontes, limit, k, st) ==
    IF k > Len(fontes) \/ Len(st.resultado) >= limit
    THEN IF st.adicionou_alguma /\ Len(st.resultado) < limit
         THEN RoundRobin(rows, fontes, limit, 1, [st EXCEPT !.adicionou_alguma = FALSE])
         ELSE st.resultado
    ELSE LET fonte == fontes[k]
             lista_fonte == PorFonte(rows, fonte)
             idx == ProximaValida(lista_fonte, st.indices[fonte], st.urls_vistas)
         IN  IF idx <= Len(lista_fonte)
             THEN RoundRobin(rows, fontes, limit, k + 1,
                     [resultado |-> Append(st.resultado, lista_fonte[idx]),
                      urls_vistas |-> st.urls_vistas \cup {lista_fonte[idx].url},
                      indices |-> [st.indices EXCEPT ![fonte] = idx + 1],
                      adicionou_alguma |-> TRUE])
             ELSE RoundRobin(rows, fontes, limit, k + 1,
                     [st EXCEPT !.indices = [st.indices EXCEPT ![fonte] = idx]])

Primeiras(rows, limit) == SubSeq(rows, 1, Min2(limit, Len(rows)))

\* _diversificar_noticias_por_fonte
DiversificarMut(rows, limit) == Primeiras(rows, limit)
Diversificar(rows, limit) ==
    IF rows = <<>> THEN <<>>
    ELSE LET fontes == FontesOrdenadas(rows) IN
         IF Len(fontes) <= 1 THEN Primeiras(rows, limit)
         ELSE RoundRobin(rows, fontes, limit, 1,
                 [resultado |-> <<>>, urls_vistas |-> {},
                  indices |-> [f \in {fontes[i] : i \in DOMAIN fontes} |-> 1],
                  adicionou_alguma |-> FALSE])

\* the answers of the store: at most 5 * limit rows, highest relevancia_total
\* first, no url twice (the url is unique in noticias); url i is row i
Pools ==
    UNION {{pool \in [1..n -> [url : 1..MaxPool, fonte_nome : FonteNomes, relevancia_total : 1..2]] :
                /\ \A i \in 1..n : pool[i].url = i
                /\ \A i \in 1..(n - 1) : pool[i].relevancia_total >= pool[i + 1].relevancia_total}
           : n \in 0..MaxPool}

\* no call yet
InitConsulta == consulta = [feita |-> FALSE]

\* get_noticias_politico(politico_id, limit) with diversificar_fontes (one
\* call in each behaviour)
GetNoticiasPolitico ==
    /\ ~consulta.feita
    /\ \E limit \in 1..MaxLimit, pool \in Pools :
         /\ Len(pool) <= limit * 5
         /\ consulta' = [feita |-> TRUE, pool |-> pool, limit |-> limit,
                         resultado |-> IF Len(pool) <= limit
                                       THEN Primeiras(pool, limit)
                                       ELSE Diversificar(pool, limit)]

NextConsulta == GetNoticiasPolitico /\ UNCHANGED foraConsulta

(***************************************************************************)
(* Topic classification of the collected mentions (ai/topic_analyzer.py)   *)
(* A key a mention does not have, or has with the value None, is "none".   *)
(***************************************************************************)
\* TopicAnalyzer.client: None without settings.openai_api_key; otherwise a
\* client whose endpoint either cannot be reached or answers
Clientes == {"unconfigured", "unreachable", "ok"}

\* TopicAnalyzer.is_available
IsAvailable(cliente) == cliente # "unconfigured"

\* TopicAnalyzer.CATEGORIAS
Categorias ==
    {"Saude", "Educacao", "Seguranca", "Economia", "Infraestrutura", "Meio Ambiente",
     "Corrupcao", "Politica", "Social", "Cultura", "Tecnologia", "Agronegocio", "Outro"}

\* batch_size of classificar_batch
BatchSize == 5

\* _classificacao_padrao
ClassificacaoPadrao == [assunto |-> "Outro", assunto_detalhe |-> "", sentimento |-> "neutro"]

\* str.lower() on the sentiments the endpoint answers
Lower(s) == IF s = "POSITIVO" THEN "positivo" ELSE s

\* _normalizar_resultado (the details answered here are within 150 characters)
NormalizarResultado(result) ==
    [assunto |-> IF result.assunto \in Categorias THEN result.assunto ELSE "Outro",
     assunto_detalhe |-> result.assunto_detalhe,
     sentimento |-> IF Lower(result.sentimento) \in {"positivo", "negativo", "neutro"}
                    THEN Lower(result.sentimento) ELSE "neutro"]

\* the text of a mention as the providers deliver it
Conteudos == {"none", "", "texto"}

\* a collected mention before classification
Mencao(mention_id, conteudo) ==
    [mention_id |-> mention_id, conteudo |-> conteudo,
     assunto |-> "none", assunto_detalhe |-> "none", sentimento |-> "none"]

\* mencao.update(classificacao)
Update(mencao, c) ==
    [mencao EXCEPT !.assunto = c.assunto,
                   !.assunto_detalhe = c.assunto_detalhe,
                   !.sentimento = c.sentimento]

\* what the endpoint answers to one request: text that is not JSON, or a
\* "classificacoes" array one short of the batch, or as long as the batch
Respostas ==
    [kind : {"invalid", "curta", "completa"},
     item : {[assunto |-> "Saude", assunto_detalhe |-> "hospital", sentimento |-> "POSITIVO"],
             [assunto |-> "Fofoca", assunto_detalhe |-> "", sentimento |-> "feliz"]}]

\* _classificar_batch_interno: no request when no mention of the batch has
\* text; the request raises when the endpoint is unreachable, json.loads
\* raises on an invalid answer
ClassificarBatchInterno(batch, cliente, resposta) ==
    LET mencoes_texto == SelectSeq(batch, LAMBDA m : m.conteudo \notin {"none", ""})
        n == IF resposta.kind = "curta" THEN Len(batch) - 1 ELSE Len(batch)
    IN
    IF mencoes_texto = <<>>
    THEN [erro |-> "none", requests |-> 0,
          classificacoes |-> [j \in 1..Len(batch) |-> ClassificacaoPadrao]]
    ELSE IF cliente = "unreachable" \/ resposta.kind = "invalid"
    THEN [erro |-> "Exception", requests |-> 1, classificacoes |-> <<>>]
    ELSE [erro |-> "none", requests |-> 1,
          classificacoes |-> [j \in 1..n |-> NormalizarResultado(resposta.item)]]

\* the body of the loop of classificar_batch without its except clause
ClassificarLoteMut(batch, cliente, resposta) ==
    LET r == ClassificarBatchInterno(batch, cliente, resposta) IN
    [erro |-> r.erro, requests |-> r.requests,
     mencoes |-> [j \in 1..Len(batch) |->
                    IF j <= Len(r.classificacoes) THEN Update(batch[j], r.classificacoes[j])
                    ELSE IF r.erro = "none" THEN Update(batch[j], ClassificacaoPadrao)
                    ELSE batch[j]]]

\* the body of the loop of classificar_batch: one batch, try and except
ClassificarLote(batch, cliente, resposta) ==
    LET r == ClassificarBatchInterno(batch, cliente, resposta) IN
    [erro |-> "none", requests |-> r.requests,
     mencoes |-> [j \in 1..Len(batch) |->
                    IF r.erro = "none" /\ j <= Len(r.classificacoes)
                    THEN Update(batch[j], r.classificacoes[j])
                    ELSE Update(batch[j], ClassificacaoPadrao)]]

\* the loop of classificar_batch from index i on (1-based); an exception
\* that leaves a batch ends the loop
RECURSIVE ClassificarDesde(_, _, _, _, _)
ClassificarDesde(mencoes, i, cliente, resposta, requests) ==
    IF i > Len(mencoes) THEN [erro |-> "none", requests |-> requests, mencoes |-> mencoes]
    ELSE LET fim == IF i + BatchSize - 1 < Len(mencoes) THEN i + BatchSize - 1 ELSE Len(mencoes)
             lote == ClassificarLote(SubSeq(mencoes, i, fim), cliente, resposta)
             depois == [k \in 1..Len(mencoes) |->
                          IF i <= k /\ k <= fim THEN lote.mencoes[k - i + 1] ELSE mencoes[k]]
         IN  IF lote.erro # "none"
             THEN [erro |-> lote.erro, requests |-> requests + lote.requests, mencoes |-> depois]
             ELSE ClassificarDesde(depois, i + BatchSize, cliente, resposta,
                                   requests + lote.requests)

\* classificar_batch
ClassificarBatch(mencoes, cliente, resposta) ==
    IF ~IsAvailable(cliente)
    THEN [erro |-> "none", requests |-> 0,
          mencoes |-> [k \in 1..Len(mencoes) |-> Update(mencoes[k], ClassificacaoPadrao)]]
    ELSE ClassificarDesde(mencoes, 1, cliente, resposta, 0)

\* SocialMentionsAggregator._remove_duplicates: the first mention of each id
\* (the mentions of one collection here have one plataforma)
RECURSIVE RemoveDuplicatesMencoes(_, _)
RemoveDuplicatesMencoes(mencoes, unicas) ==
    IF mencoes = <<>> THEN unicas
    ELSE IF \E k \in 1..Len(unicas) : unicas[k].mention_id = Head(mencoes).mention_id
         THEN RemoveDuplicatesMencoes(Tail(mencoes), unicas)
         ELSE RemoveDuplicatesMencoes(Tail(mencoes), Append(unicas, Head(mencoes)))

\* coletar_mencoes_politico from step 3 on: deduplication, then the
\* classification, whose exception is logged and leaves the mentions as they are
ColetarMencoesPolitico(todas_mencoes, cliente, resposta) ==
    LET mencoes_unicas == RemoveDuplicatesMencoes(todas_mencoes, <<>>)
        c == ClassificarBatch(mencoes_unicas, cliente, resposta)
    IN  IF mencoes_unicas = <<>> THEN [erro |-> "none", requests |-> 0, mencoes |-> <<>>]
        ELSE IF c.erro # "none" THEN [erro |-> c.erro, requests |-> c.requests, mencoes |-> mencoes_unicas]
        ELSE c

\* _serialize_for_db: the keys whose value is None are left out (mention_id,
\* a number here, is never None)
SerializeForDb(mencao) ==
    [k \in {key \in DOMAIN mencao : key = "mention_id" \/ mencao[key] # "none"} |-> mencao[k]]

\* insert_social_mentions_batch on a table with the unique constraint it
\* names: a row with the same mention id takes the values sent; nothing is
\* written, and 0 is returned, when the request raises
InsertClassificadas(table, batch, store_ok) ==
    IF batch = {} \/ ~store_ok THEN table
    ELSE {row \in table : \A m \in batch : m.mention_id # row.mention_id} \cup batch

\* the mentions one collection finds: their texts in the order collected
\* (a text of None is drawn for the first mention only)
MaxMencoes == 6
Entradas ==
    {e \in UNION {[1..n -> Conteudos] : n \in 0..MaxMencoes} :
        \A i \in 2..Len(e) : e[i] # "none"}

\* a row saved by an earlier collection, classified then
RowAnterior ==
    SerializeForDb(Update(Mencao(1, "texto"),
                          [assunto |-> "Saude", assunto_detalhe |-> "hospital", sentimento |-> "positivo"]))

\* no collection yet
ClassifIdle == [feita |-> FALSE]

InitClassif == classif = ClassifIdle

\* one politician of executar_coleta_completa: the mentions collected are
\* classified, serialized and saved in one batch
ColetaClassificada ==
    /\ ~classif.feita
    /\ \E entrada \in Entradas, repetida \in BOOLEAN, antes \in BOOLEAN,
          cliente \in Clientes, store_ok \in BOOLEAN :
        \E resposta \in IF cliente = "ok" THEN Respostas
                        ELSE {[kind |-> "invalid", item |-> ClassificacaoPadrao]} :
          LET coletadas == [i \in 1..Len(entrada) |-> Mencao(i, entrada[i])]
              todas_mencoes == IF repetida /\ Len(entrada) > 0
                               THEN Append(coletadas, coletadas[1]) ELSE coletadas
              r == ColetarMencoesPolitico(todas_mencoes, cliente, resposta)
              mencoes_serializadas == {SerializeForDb(r.mencoes[i]) : i \in 1..Len(r.mencoes)}
              table == IF antes THEN {RowAnterior} ELSE {}
          IN  classif' = [feita |-> TRUE, cliente |-> cliente, unicas |-> Len(entrada),
                          erro |-> r.erro, requests |-> r.requests, mencoes |-> r.mencoes,
                          enviadas |-> mencoes_serializadas, store_ok |-> store_ok,
                          gravadas |-> InsertClassificadas(table, mencoes_serializadas, store_ok)]

NextClassif == ColetaClassificada /\ UNCHANGED foraClassif

(***************************************************************************)
(* Retention: the tables the jobs write and the daily clean-up job         *)
(* A row is the day of its timestamp column (coletado_em of noticias,      *)
(* collected_at of the post and mention tables, periodo_fim of the topics).*)
(***************************************************************************)
Tabelas == {"noticias", "social_media_posts", "instagram_posts", "social_mentions", "mention_topics"}

\* settings.dias_retencao_noticias, settings.dias_retencao_instagram
DiasRetencaoNoticias == 7
DiasRetencaoInstagram == 30
\* the literals job_limpeza passes for mentions and topics
DiasRetencaoMencoes == 30
DiasRetencaoTopicos == 30

\* rows a table holds at most
MaxLinhas == 1
\* last day of the retention clock
MaxDia == 39
\* days that pass between two steps
Saltos == {8, 31}

InitRetencao ==
    /\ tabelas = [t \in Tabelas |-> {}]
    /\ hoje = 0
    /\ limpeza = [status |-> "none", em |-> 0, removidos |-> 0]

\* days pass
Passa(d) ==
    /\ hoje + d <= MaxDia
    /\ hoje' = hoje + d
    /\ UNCHANGED <<tabelas, limpeza>>

\* insert_noticias_batch of the news job: coletado_em is the column default
GravaNoticias ==
    /\ Cardinality(tabelas["noticias"]) < MaxLinhas
    /\ tabelas' = [tabelas EXCEPT !["noticias"] = @ \cup {hoje}]
    /\ UNCHANGED <<hoje, limpeza>>

\* InstagramCollector.executar_coleta_completa: the posts of a politician are
\* formatted for social_media_posts and saved there with
\* insert_social_media_posts_batch
GravaPosts ==
    /\ Cardinality(tabelas["social_media_posts"]) < MaxLinhas
    /\ tabelas' = [tabelas EXCEPT !["social_media_posts"] = @ \cup {hoje}]
    /\ UNCHANGED <<hoje, limpeza>>

\* the mention job: the mentions and the roll-up of the same politician
GravaMencoes ==
    /\ Cardinality(tabelas["social_mentions"]) < MaxLinhas
    /\ Cardinality(tabelas["mention_topics"]) < MaxLinhas
    /\ tabelas' = [tabelas EXCEPT !["social_mentions"] = @ \cup {hoje},
                                  !["mention_topics"] = @ \cup {hoje}]
    /\ UNCHANGED <<hoje, limpeza>>

\* the delete of limpar_*: the rows whose timestamp is before now - dias
Limpar(tab, t, dias, agora) ==
    [tab EXCEPT ![t] = {ts \in @ : ~(ts < agora - dias)}]

\* the four deletes of job_limpeza, in its order
Limpezas ==
    <<[tabela |-> "noticias", dias |-> DiasRetencaoNoticias],
      [tabela |-> "instagram_posts", dias |-> DiasRetencaoInstagram],
      [tabela |-> "social_mentions", dias |-> DiasRetencaoMencoes],
      [tabela |-> "mention_topics", dias |-> DiasRetencaoTopicos]>>

\* the first n deletes of job_limpeza applied
RECURSIVE LimparAte(_, _, _)
LimparAte(tab, n, agora) ==
    IF n = 0 THEN tab
    ELSE Limpar(LimparAte(tab, n - 1, agora), Limpezas[n].tabela, Limpezas[n].dias, agora)

RECURSIVE Linhas(_, _)
Linhas(tab, ts) ==
    IF ts = {} THEN 0
    ELSE LET t == CHOOSE x \in ts : TRUE IN Cardinality(tab[t]) + Linhas(tab, ts \ {t})

\* job_limpeza: the deletes run one after the other; the first that raises
\* (falha, 0 when none does) ends the run with status "erro"
JobLimpeza ==
    \E falha \in 0..Len(Limpezas) :
        LET feitas == IF falha = 0 THEN Len(Limpezas) ELSE falha - 1
            depois == LimparAte(tabelas, feitas, hoje)
        IN
        /\ tabelas' = depois
        /\ limpeza' = [status |-> IF falha = 0 THEN "sucesso" ELSE "erro",
                       em |-> hoje,
                       removidos |-> IF falha = 0
                                     THEN Linhas(tabelas, Tabelas) - Linhas(depois, Tabelas)
                                     ELSE 0]
        /\ UNCHANGED hoje

NextRetencao ==
    \/ \E d \in Saltos : Passa(d) /\ UNCHANGED foraRetencao
    \/ GravaNoticias /\ UNCHANGED foraRetencao
    \/ GravaPosts /\ UNCHANGED foraRetencao
    \/ GravaMencoes /\ UNCHANGED foraRetencao
    \/ JobLimpeza /\ UNCHANGED foraRetencao

(***************************************************************************)
(* Source weights: the table fontes_noticias, the engine's cache of it and *)
(* the admin endpoint PUT /fontes/{id}/peso. Weights are in tenths.        *)
(***************************************************************************)
\* the active rows of fontes_noticias: id and dominio
FonteIds == {"f1", "f2"}
DominioDe == [f \in FonteIds |-> IF f = "f1" THEN "globo.com" ELSE "uol.com.br"]

\* the domains of the items scored
Dominios == {"globo.com", "g1.globo.com", "uol.com.br", "blog.br"}

\* str.endswith on these domains
EndsWith(a, b) == a = b \/ (a = "g1.globo.com" /\ b = "globo.com")

\* the weights asked of the endpoint; FonteUpdate accepts 0.0 to 2.0
PesosPedidos == {0, 5, 20, 25}
PesoValido(w) == 0 <= w /\ w <= 20

\* _load_fontes_cache: the rows of get_fontes_ativas by dominio; the cache
\* stays as it is when the read raises
LoadFontesCache(cache, fontes, read_ok) ==
    IF ~read_ok THEN cache
    ELSE [d \in DOMAIN cache \cup {DominioDe[f] : f \in DOMAIN fontes} |->
            IF \E f \in DOMAIN fontes : DominioDe[f] = d
            THEN fontes[CHOOSE f \in DOMAIN fontes : DominioDe[f] = d]
            ELSE cache[d]]

\* the cache of a new engine before it is loaded
CacheVazio == [d \in {} |-> 0]

\* _get_fonte_peso: the cached row of the domain, else of a cached domain
\* one is the suffix of the other, else 1.0
GetFontePeso(cache, d) ==
    IF d \in DOMAIN cache THEN cache[d]
    ELSE IF \E c \in DOMAIN cache : EndsWith(d, c) \/ EndsWith(c, d)
         THEN cache[CHOOSE c \in DOMAIN cache : EndsWith(d, c) \/ EndsWith(c, d)]
         ELSE 10

InitFontes ==
    /\ fontes_noticias = [f \in FonteIds |-> 10]
    /\ fontes_cache = LoadFontesCache(CacheVazio, [f \in FonteIds |-> 10], TRUE)
    /\ peso_definido = [f \in FonteIds |-> -1]
    /\ score_fonte = [dominio |-> "none", score |-> 0]

\* PUT /fontes/{fonte_id}/peso: a weight outside 0..2 is rejected by the
\* schema; db.update_fonte_peso updates the row and the endpoint answers ok,
\* or the update raises and the endpoint answers 404
UpdateFontePeso(f, w) ==
    \E store_ok \in BOOLEAN :
        LET ok == PesoValido(w) /\ store_ok IN
        /\ fontes_noticias' = IF ok THEN [fontes_noticias EXCEPT ![f] = w] ELSE fontes_noticias
        /\ peso_definido' = IF ok THEN [peso_definido EXCEPT ![f] = w] ELSE peso_definido
        /\ UNCHANGED <<fontes_cache, score_fonte>>

\* calcular_score_fonte for an item of domain d
CalcularScoreFonte(d) ==
    /\ score_fonte' = [dominio |-> d, score |-> ScoreFonte(GetFontePeso(fontes_cache, d))]
    /\ UNCHANGED <<fontes_noticias, fontes_cache, peso_definido>>

\* the process starts again: RelevanceEngine() loads a new cache
Reinicio ==
    \E read_ok \in BOOLEAN :
        /\ fontes_cache' = LoadFontesCache(CacheVazio, fontes_noticias, read_ok)
        /\ UNCHANGED <<fontes_noticias, peso_definido, score_fonte>>

NextFontes ==
    \/ \E f \in FonteIds, w \in PesosPedidos : UpdateFontePeso(f, w) /\ UNCHANGED foraFontes
    \/ \E d \in Dominios : CalcularScoreFonte(d) /\ UNCHANGED foraFontes
    \/ Reinicio /\ UNCHANGED foraFontes

(***************************************************************************)
(* The triggers start_scheduler registers from settings.coleta_horario     *)
(***************************************************************************)
DigitChars == <<"0", "1", "2", "3", "4", "5", "6", "7", "8", "9">>

\* the character of a digit
Char(n) == DigitChars[n + 1]

\* a base time "HH:MM" as its characters
Horario(h, mi) == <<Char(h \div 10), Char(h % 10), ":", Char(mi \div 10), Char(mi % 10)>>

\* the settings of coleta_horario: every time of the day
Horarios == {Horario(h, mi) : h \in 0..23, mi \in 0..59}

\* str.split(":"): the characters before and after the first colon
Split(s) ==
    LET i == CHOOSE k \in 1..Len(s) : s[k] = ":" /\ \A j \in 1..(k - 1) : s[j] # ":"
    IN  <<SubSeq(s, 1, i - 1), SubSeq(s, i + 1, Len(s))>>

\* int() of a string of digits
RECURSIVE IntOf(_)
IntOf(s) ==
    IF s = <<>> THEN 0
    ELSE LET c == s[Len(s)]
             d == (CHOOSE k \in 1..10 : DigitChars[k] = c) - 1
         IN  IntOf(SubSeq(s, 1, Len(s) - 1)) * 10 + d

\* CronTrigger(hour, minute) and CronTrigger(day_of_week, hour, minute);
\* day_of_week "*" is every day
CronTrigger(day_of_week, hour, minute) ==
    [day_of_week |-> day_of_week, hour |-> hour, minute |-> minute]

\* the minute start_scheduler gives the Instagram and the clean-up trigger
MinutoMais(minuto, delta) ==
    IF minuto + delta < 60 THEN minuto + delta ELSE (minuto + delta) % 60

\* the hour start_scheduler gives the mention and the trending trigger
HoraMais(hora, delta) ==
    IF hora + delta < 24 THEN hora + delta ELSE (hora + delta) % 24

\* the triggers registered by start_scheduler, by job id
Triggers(coleta_horario) ==
    LET partes == Split(coleta_horario)
        hora == IntOf(partes[1])
        minuto == IntOf(partes[2])
        hora_social == HoraMais(hora, 1)
        hora_trending == HoraMais(hora, 2)
    IN  [coleta_noticias |-> CronTrigger("*", hora, minuto),
         coleta_instagram |-> CronTrigger("*", hora, MinutoMais(minuto, 45)),
         coleta_social_mentions |-> CronTrigger("*", hora_social, minuto),
         coleta_trending |-> CronTrigger("*", hora_trending, minuto),
         limpeza_dados |-> CronTrigger("*", hora_trending, MinutoMais(minuto, 15)),
         coleta_processual_tse |-> CronTrigger("sun", 3, 0)]

\* the scheduler before start_scheduler
AgendaVazia == [feita |-> FALSE]

InitAgenda == agenda = AgendaVazia

\* start_scheduler with a configured base time
StartScheduler ==
    /\ ~agenda.feita
    /\ \E coleta_horario \in Horarios :
         agenda' = [feita |-> TRUE, coleta_horario |-> coleta_horario,
                    jobs |-> Triggers(coleta_horario)]

NextAgenda == StartScheduler /\ UNCHANGED foraAgenda

(***************************************************************************)
(* Name variations of a politician (relevance/analyzer.py)                 *)
(* A text is the sequence of its characters; "aacute" is the letter a with *)
(* an acute accent.                                                        *)
(***************************************************************************)
\* unicodedata.normalize('NFKD') with the non-ASCII marks dropped, then
\* str.lower(), on one character
NormalizeChar(c) ==
    IF c = "aacute" THEN "a"
    ELSE IF c = "atilde" THEN "a"
    ELSE IF c = "A" THEN "a"
    ELSE IF c = "J" THEN "j"
    ELSE IF c = "N" THEN "n"
    ELSE IF c = "P" THEN "p"
    ELSE IF c = "E" THEN "e"
    ELSE IF c = "S" THEN "s"
    ELSE c

\* str.strip()
RECURSIVE Strip(_)
Strip(s) ==
    IF s = <<>> THEN s
    ELSE IF Head(s) = " " THEN Strip(Tail(s))
    ELSE IF s[Len(s)] = " " THEN Strip(SubSeq(s, 1, Len(s) - 1))
    ELSE s

\* ContentAnalyzer.normalize_text
NormalizeText(text) ==
    IF text = <<>> THEN <<>>
    ELSE Strip([i \in 1..Len(text) |-> NormalizeChar(text[i])])

\* str.split(): the maximal runs without a space
RECURSIVE SplitWs(_, _, _)
SplitWs(s, cur, acc) ==
    IF s = <<>> THEN (IF cur = <<>> THEN acc ELSE Append(acc, cur))
    ELSE IF Head(s) = " "
         THEN SplitWs(Tail(s), <<>>, IF cur = <<>> THEN acc ELSE Append(acc, cur))
         ELSE SplitWs(Tail(s), Append(cur, Head(s)), acc)

\* conectivos of extract_name_variations
Conectivos ==
    {<<"d", "a">>, <<"d", "e">>, <<"d", "o">>, <<"d", "a", "s">>, <<"d", "o", "s">>, <<"e">>}

\* significant_parts of extract_name_variations
SignificantParts(parts) ==
    SelectSeq(parts, LAMBDA p : p \notin Conectivos /\ Len(p) > 2)

\* ContentAnalyzer.extract_name_variations, the list as the set it is made from
ExtractNameVariations(full_name) ==
    IF full_name = <<>> THEN {}
    ELSE LET normalized == NormalizeText(full_name)
             parts == SplitWs(normalized, <<>>, <<>>)
             significant_parts == SignificantParts(parts)
             n == Len(significant_parts)
         IN  {normalized}
             \cup (IF n >= 2
                   THEN {significant_parts[1] \o <<" ">> \o significant_parts[n],
                         significant_parts[n]}
                   ELSE {})
             \cup (IF n >= 1 THEN {significant_parts[1]} ELSE {})

\* the words politicians' names are made of here
Palavras ==
    {<<"A", "n", "a">>, <<"S", "aacute">>, <<"d", "a">>, <<"E">>, <<"S", "i", "l", "v", "a">>}

\* words of a name
MaxTokens == 3

\* the words of a name joined by one space
RECURSIVE JoinSp(_)
JoinSp(ws) ==
    IF ws = <<>> THEN <<>>
    ELSE IF Len(ws) = 1 THEN ws[1]
    ELSE ws[1] \o <<" ">> \o JoinSp(Tail(ws))

\* the names in politico.name: one to MaxTokens words, with or without a
\* space in front
Nomes ==
    {prefixo \o JoinSp(ws) :
        prefixo \in {<<>>, <<" ">>},
        ws \in UNION {[1..n -> Palavras] : n \in 1..MaxTokens}}

InitNomes == nomes = [feita |-> FALSE]

\* analyze_mentions asking for the variations of a politician's name
NomeVariations ==
    /\ ~nomes.feita
    /\ \E full_name \in Nomes :
         nomes' = [feita |-> TRUE, full_name |-> full_name,
                   variations |-> ExtractNameVariations(full_name)]

NextNomes == NomeVariations /\ UNCHANGED foraNomes

(***************************************************************************)
(* In-batch deduplication of the records one collection merged             *)
(***************************************************************************)
\* records one collection merges before deduplication
MaxLote == 3

\* todas_noticias: the records of the sources, in the order merged
Lotes == UNION {[1..n -> Items] : n \in 0..MaxLote}

InitDedup == dedup = [feita |-> FALSE]

\* coletar_noticias_politico handing the merged records to _remove_duplicates
DeduplicarLote ==
    /\ ~dedup.feita
    /\ \E todas_noticias \in Lotes :
         dedup' = [feita |-> TRUE, entrada |-> todas_noticias,
                   saida |-> RemoveDuplicates(todas_noticias)]

NextDedup == DeduplicarLote /\ UNCHANGED foraDedup

(***************************************************************************)
(* Latest-unique-portal selection of the city, state and national scopes   *)
(***************************************************************************)
\* a record without url
UrlVazia == Url(FALSE, FALSE, "", "", FALSE)

\* the URLs of the candidates: two portals, one article of a.com also
\* through a Google News wrapper
PortalUrls ==
    { Url(FALSE, FALSE, "a.com", "/x", FALSE),
      Url(FALSE, TRUE, "a.com", "/y", FALSE),
      Url(TRUE, FALSE, "a.com", "/x", FALSE),
      Url(FALSE, FALSE, "b.com", "/z", TRUE),
      UrlVazia }

\* _extract_domain: the host of the URL as given, without a leading "www."
ExtractDomain(url) == IF url.wrap THEN "news.google.com" ELSE url.host

\* publicado_em: None, or a datetime (hours)
PublicadosEm == {[tem |-> FALSE, t |-> 0], [tem |-> TRUE, t |-> 1], [tem |-> TRUE, t |-> 2]}

\* datetime.min
DatetimeMin == -1

\* sort_key of _select_latest_unique_portals: _as_datetime(publicado_em) or datetime.min
SortKey(n) == IF n.publicado_em.tem THEN n.publicado_em.t ELSE DatetimeMin

\* sorted(..., reverse=True) is stable: a record goes after the records
\* already placed whose key is at least its own
RECURSIVE InsertDesc(_, _)
InsertDesc(ordered, n) ==
    IF ordered = <<>> THEN <<n>>
    ELSE IF SortKey(Head(ordered)) >= SortKey(n)
         THEN <<Head(ordered)>> \o InsertDesc(Tail(ordered), n)
         ELSE <<n>> \o ordered

RECURSIVE SortedDesc(_, _)
SortedDesc(rows, ordered) ==
    IF rows = <<>> THEN ordered
    ELSE SortedDesc(Tail(rows), InsertDesc(ordered, Head(rows)))

\* the loop of _select_latest_unique_portals over the ordered records
RECURSIVE SelectWalk(_, _, _, _, _)
SelectWalk(ordered, limit, out, seen_domains, seen_urls) ==
    IF ordered = <<>> THEN out
    ELSE LET n == Head(ordered)
             norm == NormalizeUrl(n.url)
             domain == ExtractDomain(n.url)
         IN  IF n.url = UrlVazia \/ norm \in seen_urls
                \/ (domain # "" /\ domain \in seen_domains)
             THEN SelectWalk(Tail(ordered), limit, out, seen_domains, seen_urls)
             ELSE IF Len(out) + 1 >= limit
                  THEN Append(out, n)
                  ELSE SelectWalk(Tail(ordered), limit, Append(out, n),
                                  IF domain # "" THEN seen_domains \cup {domain} ELSE seen_domains,
                                  seen_urls \cup {norm})

\* the first limit records by date, whatever their portal
SelectLatestUniquePortalsMut(rows, limit) ==
    LET ordered == SortedDesc(rows, <<>>)
    IN  SubSeq(ordered, 1, IF Len(ordered) < limit THEN Len(ordered) ELSE limit)

\* _select_latest_unique_portals
SelectLatestUniquePortals(rows, limit) ==
    IF rows = <<>> THEN <<>>
    ELSE SelectWalk(SortedDesc(rows, <<>>), limit, <<>>, {}, {})

\* candidates of one city, state or national collection
MaxSelecao == 3
\* largest limit of a selection
MaxSelLimit == 2

CandidatosSelecao ==
    UNION {[1..n -> [url : PortalUrls, publicado_em : PublicadosEm]] : n \in 0..MaxSelecao}

InitSelecao == selecao = [feita |-> FALSE]

\* coletar_noticias_cidade (estado, politicas_gerais) selecting among the
\* scored candidates
SelecionarNoticias ==
    /\ ~selecao.feita
    /\ \E candidatos \in CandidatosSelecao, limit \in 1..MaxSelLimit :
         selecao' = [feita |-> TRUE, candidatos |-> candidatos, limit |-> limit,
                     out |-> SelectLatestUniquePortals(candidatos, limit)]

NextSelecao == SelecionarNoticias /\ UNCHANGED foraSelecao

(***************************************************************************)
(* One full news run: executar_coleta_completa under job_coleta_noticias   *)
(***************************************************************************)
\* the key of stats a scope counts under
StatsKey(tipo) ==
    CASE tipo = "politico" -> "politicos"
      [] tipo = "concorrente" -> "concorrentes"
      [] tipo = "estado" -> "estados"
      [] tipo = "cidade" -> "cidades"
      [] tipo = "geral" -> "geral"

\* politico_id of a collected record: the politician's for its own news, the
\* competitor's for a competitor's news, absent for the regional scopes
PoliticoIdDe(tipo) ==
    CASE tipo = "politico" -> "p1"
      [] tipo = "concorrente" -> "c1"
      [] OTHER -> "none"

\* the serialized records of a batch of one scope
Payload(urls, tipo) ==
    {[url |-> u, tipo |-> tipo, politico_id |-> PoliticoIdDe(tipo)] : u \in urls}

SemLinha == [tem |-> FALSE, tipo |-> "none", politico_id |-> "none"]

\* upsert(on_conflict="url"): the columns of the payload replace those of the
\* row with the same url, a new url gets a new row
UpsertPorUrl(tabela, batch) ==
    [u \in ArtigoUrls |->
        IF \E n \in batch : n.url = u
        THEN LET n == CHOOSE n \in batch : n.url = u
             IN  [tem |-> TRUE, tipo |-> n.tipo,
                  politico_id |-> IF n.politico_id # "none" THEN n.politico_id
                                  ELSE tabela[u].politico_id]
        ELSE tabela[u]]

\* insert_noticias_batch: the rows of the response, 0 for an empty batch and
\* for a store error, which is logged and swallowed
InsertNoticiasBatch(tabela, batch, store_ok) ==
    IF batch = {} THEN [tabela |-> tabela, inserted |-> 0]
    ELSE IF store_ok
         THEN [tabela |-> UpsertPorUrl(tabela, batch), inserted |-> Cardinality(batch)]
         ELSE [tabela |-> tabela, inserted |-> 0]

StatsZero ==
    [politicos |-> 0, concorrentes |-> 0, cidades |-> 0, estados |-> 0, geral |-> 0, erros |-> 0]

\* job_coleta_noticias has logged its start, executar_coleta_completa is at
\* the only active politician (a Senador: every regional scope applies)
InitColetaCompleta ==
    coleta_completa = [pc |-> "politico", stats |-> StatsZero,
                       noticias |-> [u \in ArtigoUrls |-> SemLinha],
                       falhas |-> 0, persistidas |-> 0, coletar_brasil |-> FALSE,
                       log |-> [status |-> "none", registros |-> 0]]

\* one scope of the run: collect, serialize, insert_noticias_batch, count
PersistirEscopo(tipo, proximo) ==
    \E urls \in SUBSET ArtigoUrls, store_ok \in BOOLEAN :
        LET r == InsertNoticiasBatch(coleta_completa.noticias, Payload(urls, tipo), store_ok)
        IN  coleta_completa' =
                [coleta_completa EXCEPT
                    !.pc = proximo,
                    !.noticias = r.tabela,
                    !.stats[StatsKey(tipo)] = @ + r.inserted,
                    !.persistidas = @ + r.inserted,
                    !.falhas = @ + (IF urls # {} /\ ~store_ok THEN 1 ELSE 0),
                    !.coletar_brasil = @ \/ tipo = "cidade"]

PersistePolitico == coleta_completa.pc = "politico" /\ PersistirEscopo("politico", "concorrente")

PersisteConcorrentes == coleta_completa.pc = "concorrente" /\ PersistirEscopo("concorrente", "estado")

PersisteEstado == coleta_completa.pc = "estado" /\ PersistirEscopo("estado", "cidade")

PersisteCidade == coleta_completa.pc = "cidade" /\ PersistirEscopo("cidade", "geral")

PersisteGerais ==
    /\ coleta_completa.pc = "geral" /\ coleta_completa.coletar_brasil
    /\ PersistirEscopo("geral", "fim")

\* an exception in the politician's body: counted, the rest of the
\* politician is skipped, coletar_brasil stays unset
ErroPolitico ==
    /\ coleta_completa.pc \in {"politico", "concorrente", "estado", "cidade"}
    /\ coleta_completa' = [coleta_completa EXCEPT !.pc = "fim", !.stats.erros = @ + 1]

\* job_coleta_noticias after executar_coleta_completa returned its stats
JobColetaNoticias ==
    /\ coleta_completa.pc = "fim"
    /\ LET stats == coleta_completa.stats
           total == stats.politicos + stats.concorrentes + stats.cidades + stats.geral
           status == IF stats.erros = 0 THEN "sucesso" ELSE "parcial"
       IN  coleta_completa' = [coleta_completa EXCEPT
                                  !.pc = "registrado",
                                  !.log = [status |-> status, registros |-> total]]

NextColetaCompleta ==
    \/ PersistePolitico /\ UNCHANGED foraColetaCompleta
    \/ PersisteConcorrentes /\ UNCHANGED foraColetaCompleta
    \/ PersisteEstado /\ UNCHANGED foraColetaCompleta
    \/ PersisteCidade /\ UNCHANGED foraColetaCompleta
    \/ PersisteGerais /\ UNCHANGED foraColetaCompleta
    \/ ErroPolitico /\ UNCHANGED foraColetaCompleta
    \/ JobColetaNoticias /\ UNCHANGED foraColetaCompleta

(***************************************************************************)
(* Trending identification: the sources of the two trending collectors     *)
(***************************************************************************)
\* most topics one source returns
MaxResultados == 5

\* fewest scraped topics that are used as they are
MinScraping == 3
\* fewest political topics of the Google Trends RSS that are used
MinRss == 5

\* the sources in their order of priority
FontesTrending(collector) ==
    IF collector = "politica" THEN <<"scraping", "rss", "news">>
    ELSE <<"scraping", "rss", "pytrends">>

\* TrendingCollector.identificar_trending_topics; res gives the number of
\* topics each source would return
IdentificarPolitica(playwright, res) ==
    LET antes == IF playwright THEN <<"scraping">> ELSE <<>>
    IN  IF playwright /\ res.scraping >= MinScraping
        THEN [tentadas |-> <<"scraping">>, adotada |-> "scraping", topics |-> res.scraping]
        ELSE IF res.rss >= MinRss
             THEN [tentadas |-> antes \o <<"rss">>, adotada |-> "rss", topics |-> res.rss]
             ELSE [tentadas |-> antes \o <<"rss", "news">>,
                   adotada |-> IF res.news > 0 THEN "news" ELSE "none",
                   topics |-> res.news]

\* GoogleTrendingCollector.identificar_trending_topics: topics keeps what the
\* scraping returned, the RSS and pytrends run only while topics is empty
IdentificarGoogle(playwright, res) ==
    LET topics == IF playwright THEN res.scraping ELSE 0
        antes == IF playwright THEN <<"scraping">> ELSE <<>>
    IN  IF topics > 0
        THEN [tentadas |-> antes, adotada |-> "scraping", topics |-> topics]
        ELSE IF res.rss > 0
             THEN [tentadas |-> antes \o <<"rss">>, adotada |-> "rss", topics |-> res.rss]
             ELSE [tentadas |-> antes \o <<"rss", "pytrends">>,
                   adotada |-> IF res.pytrends > 0 THEN "pytrends" ELSE "none",
                   topics |-> res.pytrends]

InitIdentificacao == identificacao = [feita |-> FALSE]

\* one call of identificar_trending_topics of either collector
IdentificarTrendingTopics ==
    /\ ~identificacao.feita
    /\ \E collector \in {"politica", "google"}, playwright \in BOOLEAN,
          n1, n2, n3 \in 0..MaxResultados :
         LET res == [f \in {"scraping", "rss", "news", "pytrends"} |->
                        IF f = "scraping" THEN n1 ELSE IF f = "rss" THEN n2 ELSE n3]
             r == IF collector = "politica" THEN IdentificarPolitica(playwright, res)
                  ELSE IdentificarGoogle(playwright, res)
         IN  identificacao' = [feita |-> TRUE, collector |-> collector,
                               playwright |-> playwright, res |-> res,
                               tentadas |-> r.tentadas, adotada |-> r.adotada,
                               topics |-> r.topics]

NextIdentificacao == IdentificarTrendingTopics /\ UNCHANGED foraIdentificacao

(***************************************************************************)
(* Requests of the adapters to their providers: TSE and BlueSky            *)
(***************************************************************************)
\* attempts of _fazer_requisicao
MaxTentativas == 3

\* what a provider answers: a status code, or the client raises
RespostasHttp == {"200", "429", "404", "500", "timeout", "erro"}

\* endpoints of the TSE API
EndpointsTse == {"candidatura/listar", "candidatura/buscar"}

InitRequisicao == requisicao = [pc |-> "idle"]

\* a caller starts buscar_mencoes (bluesky) or _fazer_requisicao (tse)
IniciarRequisicao ==
    /\ requisicao.pc = "idle"
    /\ \E adapter \in {"tse", "bluesky"}, endpoint \in EndpointsTse :
         requisicao' = [pc |-> "andando", adapter |-> adapter,
                        endpoint |-> IF adapter = "tse" THEN endpoint ELSE "searchPosts",
                        tentativa |-> 0, respostas |-> <<>>, esperas |-> <<>>,
                        vazio |-> TRUE, corpo |-> 0, levantou |-> FALSE]

\* one turn of the loop of _fazer_requisicao: 200 returns the JSON, 429
\* sleeps 5 * (tentativa + 1) and goes on, another status returns None, an
\* exception sleeps 2 and goes on; None after the last turn
TentativaTse ==
    /\ requisicao.pc = "andando" /\ requisicao.adapter = "tse"
    /\ requisicao.tentativa < MaxTentativas
    /\ \E resposta \in RespostasHttp, corpo \in 0..MaxResultados :
         LET feitas == requisicao.tentativa + 1
             r == [requisicao EXCEPT !.respostas = Append(@, resposta), !.tentativa = feitas]
         IN  requisicao' =
               CASE resposta = "200" ->
                        [r EXCEPT !.pc = "fim", !.vazio = FALSE, !.corpo = corpo]
                 [] resposta = "429" ->
                        [r EXCEPT !.esperas = Append(@, 5 * feitas),
                                  !.pc = IF feitas = MaxTentativas THEN "fim" ELSE "andando"]
                 [] resposta \in {"404", "500"} ->
                        [r EXCEPT !.pc = "fim"]
                 [] OTHER ->
                        [r EXCEPT !.esperas = Append(@, 2),
                                  !.pc = IF feitas = MaxTentativas THEN "fim" ELSE "andando"]

\* BlueSkyCollector.buscar_mencoes: one request; a status other than 200
\* returns [], an exception is logged and the empty list returned
BuscarMencoesBluesky ==
    /\ requisicao.pc = "andando" /\ requisicao.adapter = "bluesky"
    /\ \E resposta \in RespostasHttp, corpo \in 0..MaxResultados :
         requisicao' = [requisicao EXCEPT
                           !.pc = "fim",
                           !.respostas = Append(@, resposta),
                           !.tentativa = @ + 1,
                           !.vazio = ~(resposta = "200" /\ corpo > 0),
                           !.corpo = IF resposta = "200" THEN corpo ELSE 0]

NextRequisicao ==
    \/ IniciarRequisicao /\ UNCHANGED foraRequisicao
    \/ TentativaTse /\ UNCHANGED foraRequisicao
    \/ BuscarMencoesBluesky /\ UNCHANGED foraRequisicao

(***************************************************************************)
(* The aggregation loop of _agregar_topicos_politico                       *)
(***************************************************************************)
\* mentions of a window
MaxJanela == 3

\* rows get_social_mentions_by_periodo can return for the politician;
\* "none" and -1 stand for a null column
MencoesLidas ==
    { [assunto |-> "Economia", sentimento |-> "positivo", engagement_score |-> 10, posted_at |-> 1],
      [assunto |-> "Economia", sentimento |-> "negativo", engagement_score |-> 20, posted_at |-> 2],
      [assunto |-> "Saude", sentimento |-> "neutro", engagement_score |-> 5, posted_at |-> 1],
      [assunto |-> "Saude", sentimento |-> "positivo", engagement_score |-> 10, posted_at |-> -1],
      [assunto |-> "Outro", sentimento |-> "negativo", engagement_score |-> 5, posted_at |-> 2],
      [assunto |-> "none", sentimento |-> "none", engagement_score |-> -1, posted_at |-> -1] }

\* float(mencao.get("engagement_score", 0) or 0)
EngagementDe(mencao) == IF mencao.engagement_score = -1 THEN 0 ELSE mencao.engagement_score

\* the position of the topic of an assunto in agregados, 0 when it has none
PosicaoAssunto(agregados, assunto) ==
    IF \E i \in DOMAIN agregados : agregados[i].assunto = assunto
    THEN CHOOSE i \in DOMAIN agregados : agregados[i].assunto = assunto
    ELSE 0

\* the topic a new assunto starts with
NovoTopico(politico_id, assunto) ==
    [politico_id |-> politico_id, assunto |-> assunto, total_mencoes |-> 0,
     mencoes_positivas |-> 0, mencoes_negativas |-> 0, mencoes_neutras |-> 0,
     engagement_total |-> 0, ultima_mencao |-> -1]

\* the counters of the topic without the sentiment branch
SomaMencaoMut(agg, mencao) ==
    [agg EXCEPT !.total_mencoes = @ + 1, !.engagement_total = EngagementDe(mencao)]

\* the body of the loop for one mention, on the topic of its assunto
SomaMencao(agg, mencao) ==
    [agg EXCEPT
        !.total_mencoes = @ + 1,
        !.engagement_total = @ + EngagementDe(mencao),
        !.mencoes_positivas = IF mencao.sentimento = "positivo" THEN @ + 1 ELSE @,
        !.mencoes_negativas = IF mencao.sentimento = "negativo" THEN @ + 1 ELSE @,
        !.mencoes_neutras = IF mencao.sentimento \notin {"positivo", "negativo"} THEN @ + 1 ELSE @,
        !.ultima_mencao = IF mencao.posted_at # -1 /\ (@ = -1 \/ mencao.posted_at > @)
                          THEN mencao.posted_at ELSE @]

\* the loop over the mentions: agregados in the order of first appearance
RECURSIVE AgregarTopicos(_, _, _)
AgregarTopicos(mencoes, politico_id, agregados) ==
    IF mencoes = <<>> THEN agregados
    ELSE LET mencao == Head(mencoes)
             assunto == AssuntoDe(mencao)
             pos == PosicaoAssunto(agregados, assunto)
             com == IF pos = 0 THEN Append(agregados, NovoTopico(politico_id, assunto))
                    ELSE agregados
             k == IF pos = 0 THEN Len(com) ELSE pos
         IN  AgregarTopicos(Tail(mencoes), politico_id,
                            [com EXCEPT ![k] = SomaMencao(com[k], mencao)])

InitRollup == rollup = [feita |-> FALSE]

\* _agregar_topicos_politico from the rows read to the topics saved; a topic
\* whose upsert fails is not counted
AgregarTopicosPolitico ==
    /\ ~rollup.feita
    /\ \E mencoes \in UNION {[1..n -> MencoesLidas] : n \in 0..MaxJanela}, store_ok \in BOOLEAN :
         LET agregados == AgregarTopicos(mencoes, "p1", <<>>)
         IN  rollup' = [feita |-> TRUE, mencoes |-> mencoes, agregados |-> agregados,
                        count |-> IF store_ok THEN Len(agregados) ELSE 0]

NextRollup == AgregarTopicosPolitico /\ UNCHANGED foraRollup

(***************************************************************************)
(* Scoring one item for a politician: analyze_mentions, the four scores,   *)
(* the weighted sum and the quality filter                                 *)
(***************************************************************************)
\* similarity_threshold of ContentAnalyzer
SimilarityThreshold == 85

\* DEFAULT_WEIGHTS, in hundredths
DefaultWeights == [recencia |-> 25, mencao |-> 35, fonte |-> 25, engajamento |-> 15]

\* variation in text
Contem(text, variation) ==
    \E i \in 0..(Len(text) - Len(variation)) :
        SubSeq(text, i + 1, i + Len(variation)) = variation

\* str.count: the occurrences of variation in text that do not overlap
RECURSIVE Ocorrencias(_, _)
Ocorrencias(text, variation) ==
    IF variation = <<>> \/ Len(text) < Len(variation) THEN 0
    ELSE IF SubSeq(text, 1, Len(variation)) = variation
         THEN 1 + Ocorrencias(SubSeq(text, Len(variation) + 1, Len(text)), variation)
         ELSE Ocorrencias(Tail(text), variation)

RECURSIVE SomaOcorrencias(_, _)
SomaOcorrencias(text, variations) ==
    IF variations = {} THEN 0
    ELSE LET v == CHOOSE x \in variations : TRUE
         IN  Ocorrencias(text, v) + SomaOcorrencias(text, variations \ {v})

\* analyze_mentions looking for the full name only
AnalyzeMentionsMut(titulo, conteudo, nome_politico, similarity) ==
    [mencao_titulo |-> Contem(NormalizeText(titulo), NormalizeText(nome_politico)),
     mencoes_conteudo |-> 0]

\* ContentAnalyzer.analyze_mentions; similarity is what fuzz.partial_ratio
\* gives for a variation that is not in the title
AnalyzeMentions(titulo, conteudo, nome_politico, similarity) ==
    LET titulo_norm == NormalizeText(titulo)
        conteudo_norm == NormalizeText(conteudo)
        nome_variations == ExtractNameVariations(nome_politico)
    IN  [mencao_titulo |->
            \E variation \in nome_variations :
                Contem(titulo_norm, variation) \/ similarity >= SimilarityThreshold,
         mencoes_conteudo |->
            IF conteudo_norm = <<>> THEN 0
            ELSE SomaOcorrencias(conteudo_norm, nome_variations)]

\* the names, titles and bodies of the items scored
NomesPoliticos ==
    { <<"J", "o", "atilde", "o", " ", "d", "a", " ", "S", "i", "l", "v", "a", " ", "N", "e", "t", "o">>,
      <<"A", "n", "a", " ", "S", "aacute">> }
Titulos ==
    { <<"J", "o", "atilde", "o", " ", "S", "i", "l", "v", "a", " ", "v", "i", "s", "i", "t", "a", " ", "o", "b", "r", "a">>,
      <<"P", "r", "e", "f", "e", "i", "t", "o", " ", "v", "i", "s", "i", "t", "a", " ", "o", "b", "r", "a">>,
      <<"A", "n", "a", " ", "S", "aacute", " ", "n", "a", " ", "o", "b", "r", "a">> }
Corpos ==
    { <<>>, <<"N", "e", "t", "o", " ", "e", " ", "A", "n", "a", " ", "n", "a", " ", "o", "b", "r", "a">> }

\* the cache of sources of the engine: g1.globo.com has weight 1.5
CacheFontes == [d \in {"g1.globo.com"} |-> 15]

InitCenario == cenario = [feita |-> FALSE]

\* calcular_relevancia for one item of a politician under the default
\* weights, then the quality filter of coletar_noticias_politico
AvaliarNoticia ==
    /\ ~cenario.feita
    /\ \E nome_politico \in NomesPoliticos, titulo \in Titulos, conteudo \in Corpos,
          dominio \in {"g1.globo.com", "blog.br"}, horas \in {0, 2, 49},
          likes \in {0, 7}, similarity \in {0, SimilarityThreshold - 1} :
         LET m == AnalyzeMentions(titulo, conteudo, nome_politico, similarity)
             sc == CalcularRelevancia(
                      [publicado_em |-> [tem |-> TRUE, horas |-> horas],
                       mencao_titulo |-> m.mencao_titulo,
                       mencoes_conteudo |-> m.mencoes_conteudo,
                       peso |-> GetFontePeso(CacheFontes, dominio),
                       engajamento |-> [compartilhamentos |-> 0, comentarios |-> 0, likes |-> likes]],
                      DefaultWeights)
         IN  cenario' = [feita |-> TRUE, nome_politico |-> nome_politico, titulo |-> titulo,
                         conteudo |-> conteudo, dominio |-> dominio, horas |-> horas,
                         likes |-> likes, similarity |-> similarity,
                         mencao_titulo |-> m.mencao_titulo,
                         mencoes_conteudo |-> m.mencoes_conteudo, scores |-> sc,
                         mantida |-> FiltroQualidade([mencao_titulo |-> m.mencao_titulo,
                                                      mencao_conteudo |-> m.mencoes_conteudo,
                                                      score_mencao |-> sc.score_mencao])]

NextCenario == AvaliarNoticia /\ UNCHANGED foraCenario

(***************************************************************************)
(* One chunk of classificar_batch: the prompt, the answer, the mentions    *)
(***************************************************************************)
\* mentions of a chunk (at most batch_size)
MaxChunk == 3

\* the texts of the mentions of a chunk
TextosChunk == {"none", "", "economia cai", "hospital abre"}

\* the classification the classifier gives a text
ClassificacaoDe(conteudo) ==
    IF conteudo = "economia cai"
    THEN [assunto |-> "Economia", assunto_detalhe |-> "queda", sentimento |-> "negativo"]
    ELSE [assunto |-> "Saude", assunto_detalhe |-> "hospital", sentimento |-> "POSITIVO"]

\* mencoes_texto of _classificar_batch_interno: a line per mention with text,
\* numbered by the position of the mention in the batch
RECURSIVE MencoesTexto(_, _)
MencoesTexto(batch, idx) ==
    IF idx > Len(batch) THEN <<>>
    ELSE (IF batch[idx].conteudo \notin {"none", ""}
          THEN <<[numero |-> idx, conteudo |-> batch[idx].conteudo]>>
          ELSE <<>>) \o MencoesTexto(batch, idx + 1)

\* the "classificacoes" array the classifier answers to the prompt: an
\* object per line in the order of the lines, or the object of line n at
\* position n with a neutral object where the prompt has no line of that
\* number
RespostaPrompt(mencoes_texto, modo) ==
    IF modo = "em_ordem"
    THEN [i \in 1..Len(mencoes_texto) |-> ClassificacaoDe(mencoes_texto[i].conteudo)]
    ELSE [i \in 1..mencoes_texto[Len(mencoes_texto)].numero |->
            IF \E k \in DOMAIN mencoes_texto : mencoes_texto[k].numero = i
            THEN ClassificacaoDe(mencoes_texto[CHOOSE k \in DOMAIN mencoes_texto :
                                                   mencoes_texto[k].numero = i].conteudo)
            ELSE [assunto |-> "Outro", assunto_detalhe |-> "", sentimento |-> "neutro"]]

\* _classificar_batch_interno with the answer of the classifier to its prompt
ClassificarPrompt(batch, modo) ==
    LET mencoes_texto == MencoesTexto(batch, 1)
    IN  IF mencoes_texto = <<>>
        THEN [erro |-> "none", classificacoes |-> [j \in 1..Len(batch) |-> ClassificacaoPadrao]]
        ELSE IF modo = "invalid"
        THEN [erro |-> "Exception", classificacoes |-> <<>>]
        ELSE LET resposta == RespostaPrompt(mencoes_texto, modo)
             IN  [erro |-> "none",
                  classificacoes |-> [i \in DOMAIN resposta |-> NormalizarResultado(resposta[i])]]

\* the loop of classificar_batch over the mentions of the chunk
AplicarClassificacoes(batch, r) ==
    [j \in 1..Len(batch) |->
        IF r.erro = "none" /\ j <= Len(r.classificacoes)
        THEN Update(batch[j], r.classificacoes[j])
        ELSE Update(batch[j], ClassificacaoPadrao)]

InitAlinhamento == alinhamento = [feita |-> FALSE]

\* classificar_batch on one chunk with the classifier available
ClassificarChunk ==
    /\ ~alinhamento.feita
    /\ \E textos \in UNION {[1..n -> TextosChunk] : n \in 1..MaxChunk},
          modo \in {"em_ordem", "por_numero", "invalid"} :
         LET batch == [i \in 1..Len(textos) |-> Mencao(i, textos[i])]
             r == ClassificarPrompt(batch, modo)
         IN  alinhamento' = [feita |-> TRUE, batch |-> batch, modo |-> modo,
                             mencoes_texto |-> MencoesTexto(batch, 1),
                             erro |-> r.erro, classificacoes |-> r.classificacoes,
                             mencoes |-> AplicarClassificacoes(batch, r)]

NextAlinhamento == ClassificarChunk /\ UNCHANGED foraAlinhamento

Init ==
    /\ InitSched /\ InitNews /\ InitTrend /\ InitMentions /\ InitRegiao /\ InitScore /\ InitFiltro
    /\ InitConsulta
    /\ InitClassif
    /\ InitRetencao
    /\ InitFontes
    /\ InitAgenda
    /\ InitNomes
    /\ InitDedup
    /\ InitSelecao
    /\ InitColetaCompleta
    /\ InitIdentificacao
    /\ InitRequisicao
    /\ InitRollup
    /\ InitCenario
    /\ InitAlinhamento

\* the scheduler, the news store and the trending table never touch
\* social_mentions: their specifications start from one of its schemas
InitSemMentions == Init /\ unique_mention = "politico_id,plataforma,mention_id"

SpecSched == InitSemMentions /\ [][NextSched]_vars

(***************************************************************************)
(* Claims about the scheduler and the job log                              *)
(***************************************************************************)
\* runs of a job kind that the scheduler started and that have not ended
CronRunsInFlight(tipo) ==
    {r \in DOMAIN runs : runs[r].origem = "cron" /\ runs[r].tipo = tipo
                         /\ runs[r].pc \in ActivePcs}

\* runs of a job kind, from the scheduler or from the endpoint, that have
\* logged their start and have not ended
RunsExecuting(tipo) ==
    {r \in DOMAIN runs : runs[r].tipo = tipo /\ runs[r].pc \in {"body", "fim", "handler"}}

\* an error was raised in the run: counted by an inner except block, or
\* on its way to the job's own except block
Failed(run) == run.erros > 0 \/ run.pc = "handler"

\* the step writes the final status of run r on its job-log row
Finalizes(r) ==
    /\ r \in DOMAIN runs
    /\ runs[r].pc \in {"fim", "handler"}
    /\ runs'[r].pc = "done"

\* C1: for every scheduled job, the runs started by the scheduler that are in
\* flight never number more than one: a firing during a run starts nothing.
C1_CronSingleFlight ==
    \A t \in Tipos : Cardinality(CronRunsInFlight(t)) <= 1

\* C1 witness: a firing of a job was skipped while its run is in its body
C1_Witness ==
    \E t \in Tipos :
        /\ skipped[JobId(t)]
        /\ \E r \in CronRunsInFlight(t) : runs[r].pc = "body"

\* C2 (as claimed): counting scheduled and manual runs together, at most one
\* run of a job kind executes at any time.
C2_SingleFlightWithManual ==
    \A t \in Tipos : Cardinality(RunsExecuting(t)) <= 1

\* C6 (as claimed): the final status is sucesso iff the run completed with no
\* error, parcial if it had errors and persisted records, erro if it failed
\* and persisted nothing.
C6_FinalStatus ==
    [][\A r \in DOMAIN runs :
         Finalizes(r) =>
           LET st == coleta_logs'[runs[r].log_id].status IN
             /\ (st = "sucesso") <=> ~Failed(runs[r])
             /\ (Failed(runs[r]) /\ runs[r].persistidos > 0) => st = "parcial"
             /\ (Failed(runs[r]) /\ runs[r].persistidos = 0) => st = "erro"]_vars

\* C7 (as claimed): an error raised in a run never leaves the job function,
\* and the run's row ends in status erro with the exception as message.
C7_ErrorsCaughtAndLogged ==
    [][\A r \in DOMAIN runs :
         /\ runs'[r].pc # "escaped"
         /\ (Finalizes(r) /\ Failed(runs[r])) =>
              /\ coleta_logs'[runs[r].log_id].status = "erro"
              /\ coleta_logs'[runs[r].log_id].mensagem = "exc"]_vars

\* C8 (as claimed): a run that is cancelled after logging its start has its
\* row finalized as parcial.
C8_CancelledIsPartial ==
    [][\A r \in DOMAIN runs :
         (runs[r].pc = "body" /\ runs'[r].pc = "cancelled") =>
              coleta_logs'[runs[r].log_id].status = "parcial"]_vars

\* C9 (as claimed): when a manually triggered run finishes, the row whose id
\* the endpoint returned has a terminal status and an end timestamp, and it
\* is the only row of that execution.
C9_ReturnedLogIdFinalized ==
    [][\A r \in DOMAIN runs :
         (runs[r].origem = "manual" /\ Finalizes(r)) =>
              /\ coleta_logs'[runs[r].api_log_id].status \in {"sucesso", "parcial", "erro"}
              /\ coleta_logs'[runs[r].api_log_id].finalizado
              /\ runs[r].log_id = runs[r].api_log_id]_vars

SpecNews == InitSemMentions /\ [][NextNews]_vars

SpecTrend == InitSemMentions /\ [][NextTrend]_vars

SpecMentions == Init /\ [][NextMentions]_vars

(***************************************************************************)
(* Claims about the news store and the trending table                      *)
(***************************************************************************)
\* C3 (as claimed): for every canonical key that was ingested, the store has
\* exactly one row, at least as long as the longest variant ingested.
C3_OneRowLongestWins ==
    \A k \in Keys :
        maior_ingerido[k] >= 0 =>
            LET rows == {row \in noticias : NormalizeUrl(row.url) = k} IN
            /\ Cardinality(rows) = 1
            /\ \A row \in rows : row.conteudo >= maior_ingerido[k]

\* C4 (as claimed): a reader of a category never gets fewer rows than the
\* last replacement whose rows became visible left there, also while a later
\* replacement is in progress or after it failed.
C4_ReplaceIsAtomic ==
    [][\A c \in Categories :
         GetTrendingTopics(c) => Len(leitura'.topics) >= Len(deixado[c])]_vars

(***************************************************************************)
(* Claims about social mentions and their roll-up                          *)
(***************************************************************************)
\* C5 (as claimed): a roll-up for a politician that follows a complete roll-up
\* for the same politician, with no mention added or changed in between,
\* leaves the rows of mention_topics as they were.
C5_RollUpIdempotent ==
    [][\A p \in PoliticosDiretoriaja :
         (ColetaPolitico(p) /\ agregado = p /\ social_mentions' = social_mentions)
            => mention_topics' = mention_topics]_vars

\* C10 (as claimed): saving mentions never removes a row nor gives it to
\* another politician: every (politician, platform, mention id) in the table
\* is still there after each step.
C10_MentionPerPoliticoKept ==
    [][\A row \in social_mentions :
         \E depois \in social_mentions' :
            /\ depois.politico_id = row.politico_id
            /\ depois.plataforma = row.plataforma
            /\ depois.mention_id = row.mention_id]_vars

(***************************************************************************)
(* Claims about the full news run                                          *)
(***************************************************************************)
SpecRegiao == InitSemMentions /\ [][NextRegiao]_vars

\* C11 (as claimed): during one full news run the collection of a state, and
\* the collection of a city, is called at most once, however many politicians
\* of the run share it.
C11_RegiaoUmaVez == \A r \in Estados \cup Cidades : invocacoes[r] <= 1

(***************************************************************************)
(* Claims about the relevance engine                                       *)
(***************************************************************************)
SpecScore == InitSemMentions /\ [][NextScore]_vars

InRange(x) == 0 <= x /\ x <= 10000

\* C12 (as claimed): every subscore and the composite of a scored item lie in
\* [0, 100], the composite is the weighted sum of the subscores within 0.01,
\* and the weights add up to 1.0 within 0.01.
C12_ScoresInRange ==
    pontuacao.feita =>
        LET sc == pontuacao.scores
            soma == SomaPonderada(sc, pontuacao.weights)
        IN  /\ InRange(sc.score_recencia) /\ InRange(sc.score_mencao)
            /\ InRange(sc.score_fonte) /\ InRange(sc.score_engajamento)
            /\ InRange(sc.relevancia_total)
            /\ sc.relevancia_total * 100 - soma <= 100
            /\ soma - sc.relevancia_total * 100 <= 100
            /\ WeightsValid(pontuacao.weights)

(***************************************************************************)
(* Claims about the mention-quality filter                                 *)
(***************************************************************************)
SpecFiltro == InitSemMentions /\ [][NextFiltro]_vars

\* C13: every row stored with scope politician or competitor has a title hit,
\* or a mention in the body, or a mention score above 20.
C13_FiltroQualidade ==
    \A row \in escopo_rows :
        row.tipo \in {"politico", "concorrente"} =>
            (row.mencao_titulo \/ row.mencao_conteudo > 0 \/ row.score_mencao > 2000)

\* a politician-scoped collection dropped an item and stored another one, next
\* to a row of a region scope without any mention
C13_Witness ==
    /\ descartadas > 0
    /\ \E row \in escopo_rows : row.tipo = "concorrente"
    /\ \E row \in escopo_rows : row.tipo = "cidade" /\ ~row.mencao_titulo

(***************************************************************************)
(* Claims about reading a politician's news                                *)
(***************************************************************************)
SpecConsulta == InitSemMentions /\ [][NextConsulta]_vars

FontesDe(rows) == {FonteDe(rows[i]) : i \in DOMAIN rows}

\* C14: when the pool has at least limit rows, of K sources, the answer has
\* rows of min(K, limit) sources and no url twice.
C14_RoundRobin ==
    (consulta.feita /\ Len(consulta.pool) >= consulta.limit) =>
        /\ Cardinality(FontesDe(consulta.resultado))
              = Min2(Cardinality(FontesDe(consulta.pool)), consulta.limit)
        /\ \A i, j \in DOMAIN consulta.resultado :
              consulta.resultado[i].url = consulta.resultado[j].url => i = j

\* the first limit rows of the pool are of one source, the answer is not
C14_Witness ==
    /\ consulta.feita
    /\ Len(consulta.pool) > consulta.limit
    /\ consulta.limit >= 2
    /\ Cardinality(FontesDe(Primeiras(consulta.pool, consulta.limit))) = 1
    /\ Cardinality(FontesDe(consulta.resultado)) = 2

(***************************************************************************)
(* Claims about the topic classification                                   *)
(***************************************************************************)
SpecClassif == InitSemMentions /\ [][NextClassif]_vars

\* a saved row carries the default classification
RowPadrao(row) ==
    /\ {"assunto", "assunto_detalhe", "sentimento"} \subseteq DOMAIN row
    /\ row.assunto = "Outro" /\ row.assunto_detalhe = "" /\ row.sentimento = "neutro"

\* C15: with the endpoint unconfigured or unreachable the classification of
\* the collected mentions raises nothing, every collected mention comes back
\* with the classification {Outro, "", neutro}, no request is made when the
\* endpoint is unconfigured, and every mention is handed to the store with
\* those values and is a row with those values once the store took the batch.
C15_ClassificacaoPadrao ==
    (classif.feita /\ classif.cliente # "ok") =>
        /\ classif.erro = "none"
        /\ Len(classif.mencoes) = classif.unicas
        /\ \A i \in 1..Len(classif.mencoes) :
              /\ classif.mencoes[i].mention_id = i
              /\ classif.mencoes[i].assunto = "Outro"
              /\ classif.mencoes[i].assunto_detalhe = ""
              /\ classif.mencoes[i].sentimento = "neutro"
              /\ \E row \in classif.enviadas : row.mention_id = i /\ RowPadrao(row)
              /\ classif.store_ok =>
                    \A row \in classif.gravadas : row.mention_id = i => RowPadrao(row)
              /\ classif.store_ok => \E row \in classif.gravadas : row.mention_id = i
        /\ (classif.cliente = "unconfigured" => classif.requests = 0)

\* an unreachable endpoint was asked once per batch for more mentions than
\* one batch holds, and the store, which had a classified row, took the batch
C15_Witness ==
    /\ classif.feita /\ classif.cliente = "unreachable"
    /\ classif.unicas > BatchSize /\ classif.requests = 2
    /\ classif.store_ok
    /\ \E row \in classif.gravadas : row.mention_id = 1 /\ RowPadrao(row)
    /\ Cardinality(classif.gravadas) = classif.unicas

(***************************************************************************)
(* Claims about retention                                                  *)
(***************************************************************************)
SpecRetencao == InitSemMentions /\ [][NextRetencao]_vars

\* the retention threshold of each table, in days
Retencao ==
    [t \in Tabelas |->
        IF t = "noticias" THEN DiasRetencaoNoticias
        ELSE IF t \in {"social_media_posts", "instagram_posts"} THEN DiasRetencaoInstagram
        ELSE IF t = "social_mentions" THEN DiasRetencaoMencoes
        ELSE DiasRetencaoTopicos]

\* C16 (as claimed): once a retention run has completed, no news row, no post
\* row written by the social-post job, no mention row and no roll-up row is
\* older than the retention threshold of its table.
C16_RetencaoCompleta ==
    (limpeza.status = "sucesso" /\ limpeza.em = hoje) =>
        \A t \in Tabelas : \A ts \in tabelas[t] : hoje - ts <= Retencao[t]

(***************************************************************************)
(* Claims about the source weights                                         *)
(***************************************************************************)
SpecFontes == InitSemMentions /\ [][NextFontes]_vars

\* C17 (as claimed): once the endpoint has set the weight w of a source, an
\* item of that source's domain scored afterwards gets the source score
\* min(100, 50 * w).
C17_PesoAplicado ==
    [][\A f \in FonteIds :
         (peso_definido[f] >= 0 /\ CalcularScoreFonte(DominioDe[f]))
            => score_fonte'.score = Min2(10000, 500 * peso_definido[f])]_vars

(***************************************************************************)
(* Claims about the registered triggers                                    *)
(***************************************************************************)
SpecAgenda == InitSemMentions /\ [][NextAgenda]_vars

\* minutes after midnight of a base time and of a trigger
MinutoDoDia(hora, minuto) == hora * 60 + minuto
Base(s) == MinutoDoDia(IntOf(SubSeq(s, 1, 2)), IntOf(SubSeq(s, 4, 5)))
Dispara(t) == MinutoDoDia(t.hour, t.minute)

\* a daily trigger firing delta minutes after the base time, the overflow of
\* the minutes carried into the hour and the hour taken modulo 24
Depois(t, s, delta) ==
    /\ t.day_of_week = "*"
    /\ t.hour \in 0..23 /\ t.minute \in 0..59
    /\ Dispara(t) = (Base(s) + delta) % 1440

\* C18 (as claimed): for every base time the social-post trigger fires 45
\* minutes after the news trigger, the mention trigger 60, the trending
\* trigger 120 and the retention trigger 135 minutes after it; the weekly
\* scrape fires on Sunday at 03:00.
C18_Triggers ==
    agenda.feita =>
        /\ Depois(agenda.jobs.coleta_noticias, agenda.coleta_horario, 0)
        /\ Depois(agenda.jobs.coleta_instagram, agenda.coleta_horario, 45)
        /\ Depois(agenda.jobs.coleta_social_mentions, agenda.coleta_horario, 60)
        /\ Depois(agenda.jobs.coleta_trending, agenda.coleta_horario, 120)
        /\ Depois(agenda.jobs.limpeza_dados, agenda.coleta_horario, 135)
        /\ agenda.jobs.coleta_processual_tse = CronTrigger("sun", 3, 0)

(***************************************************************************)
(* Claims about the name variations                                        *)
(***************************************************************************)
SpecNomes == InitSemMentions /\ [][NextNomes]_vars

\* the tokens of a normalized name that are not a connector
NaoConectivos(full_name) ==
    SelectSeq(SplitWs(NormalizeText(full_name), <<>>, <<>>), LAMBDA p : p \notin Conectivos)

\* C19 (as claimed): the variations of a non-empty name include the full
\* normalized name and, when the name has two or more tokens that are not a
\* connector (da, de, do, das, dos, e), the last of those tokens alone.
C19_Variations ==
    (nomes.feita /\ nomes.full_name # <<>>) =>
        /\ NormalizeText(nomes.full_name) \in nomes.variations
        /\ LET sig == NaoConectivos(nomes.full_name) IN
           Len(sig) >= 2 => sig[Len(sig)] \in nomes.variations

(***************************************************************************)
(* Claims about the in-batch deduplication                                 *)
(***************************************************************************)
SpecDedup == InitSemMentions /\ [][NextDedup]_vars

\* the positions of the input whose record has that canonical key
ComChave(entrada, k) == {i \in DOMAIN entrada : NormalizeUrl(entrada[i].url) = k}

\* the first position among those of the key with the longest full text
MelhorPosicao(entrada, k) ==
    CHOOSE i \in ComChave(entrada, k) :
        /\ \A j \in ComChave(entrada, k) : entrada[j].conteudo <= entrada[i].conteudo
        /\ \A j \in ComChave(entrada, k) : entrada[j].conteudo = entrada[i].conteudo => i <= j

\* C20: the output of the deduplication has exactly one record for each
\* canonical key of the input and none for any other key; that record is the
\* input record with the longest full text of its key and, of several with
\* that length, the one seen first.
C20_DedupMaisLongo ==
    dedup.feita =>
        /\ \A k \in Keys :
              IF ComChave(dedup.entrada, k) = {}
              THEN ComChave(dedup.saida, k) = {}
              ELSE /\ Cardinality(ComChave(dedup.saida, k)) = 1
                   /\ \A o \in ComChave(dedup.saida, k) :
                         dedup.saida[o] = dedup.entrada[MelhorPosicao(dedup.entrada, k)]
        /\ \A o \in DOMAIN dedup.saida : NormalizeUrl(dedup.saida[o].url) \in Keys

\* three records of one key: a shorter one, then two different URLs with the
\* longest text; the second record is the one kept
C20_Witness ==
    /\ dedup.feita
    /\ Len(dedup.entrada) = 3
    /\ \A i \in 1..3 : NormalizeUrl(dedup.entrada[i].url) = NormalizeUrl(dedup.entrada[1].url)
    /\ dedup.entrada[1].conteudo < dedup.entrada[2].conteudo
    /\ dedup.entrada[2].conteudo = dedup.entrada[3].conteudo
    /\ dedup.entrada[2].url # dedup.entrada[3].url
    /\ dedup.saida = <<dedup.entrada[2]>>

(***************************************************************************)
(* Claims about the latest-unique-portal selection                         *)
(***************************************************************************)
SpecSelecao == InitSemMentions /\ [][NextSelecao]_vars

\* the candidates that have a url, each a different article (canonical key)
Distintos(candidatos) ==
    /\ \A i \in DOMAIN candidatos : candidatos[i].url # UrlVazia
    /\ \A i, j \in DOMAIN candidatos :
          NormalizeUrl(candidatos[i].url) = NormalizeUrl(candidatos[j].url) => i = j

\* C21 (as claimed): when the candidates (each a different article) number at
\* least the limit, the selection has exactly limit records, also when they
\* come from fewer portals than the limit.
C21_ExatamenteLimit ==
    (selecao.feita /\ Distintos(selecao.candidatos)
        /\ Len(selecao.candidatos) >= selecao.limit)
        => Len(selecao.out) = selecao.limit

SpecColetaCompleta == InitSemMentions /\ [][NextColetaCompleta]_vars

\* C23 (as claimed): when a batch upsert of the run failed, the run goes on
\* with the remaining scopes and the final status of the job is partial.
C23_FalhaParcial ==
    (coleta_completa.pc = "registrado" /\ coleta_completa.falhas > 0)
        => coleta_completa.log.status = "parcial"

\* C28 (as claimed): no step of the run changes the scope tag or the
\* politician of a row stored with scope politician.
C28_TagsPreservadas ==
    [][\A u \in ArtigoUrls :
          (coleta_completa.noticias[u].tem /\ coleta_completa.noticias[u].tipo = "politico")
              => coleta_completa'.noticias[u] = coleta_completa.noticias[u]]_vars

\* C30 (as claimed): the registros written to the log row of the news job is
\* the number of rows the run persisted over all its scopes.
C30_RegistrosTotal ==
    coleta_completa.pc = "registrado"
        => coleta_completa.log.registros = coleta_completa.persistidas

(***************************************************************************)
(* Claims about the sources of the trending collectors                     *)
(***************************************************************************)
SpecIdentificacao == InitSemMentions /\ [][NextIdentificacao]_vars

\* the fewest results with which a source is used
MinimoFonte(collector, fonte) ==
    IF fonte = "scraping" THEN MinScraping
    ELSE IF fonte = "rss" /\ collector = "politica" THEN MinRss
    ELSE 1

\* C24 (as claimed): a source that was tried and returned a non-empty list
\* shorter than its minimum is not the one adopted, and the next source in the
\* order of priority is tried.
C24_FonteCurtaNaoAdotada ==
    identificacao.feita =>
        \A i \in 1..3 :
            LET ordem == FontesTrending(identificacao.collector)
                fonte == ordem[i]
            IN  ( /\ \E k \in DOMAIN identificacao.tentadas : identificacao.tentadas[k] = fonte
                  /\ identificacao.res[fonte] > 0
                  /\ identificacao.res[fonte] < MinimoFonte(identificacao.collector, fonte) )
                => /\ identificacao.adotada # fonte
                   /\ i < 3 => \E k \in DOMAIN identificacao.tentadas :
                                   identificacao.tentadas[k] = ordem[i + 1]

(***************************************************************************)
(* Claims about rate-limited requests                                      *)
(***************************************************************************)
SpecRequisicao == InitSemMentions /\ [][NextRequisicao]_vars

\* C25 (as claimed): a call makes at most 3 attempts and never raises; a
\* rate-limited attempt (429) is retried until the third, each 429 waiting
\* longer than the one before, and a call whose last answer was 429 ended
\* after its third attempt with an empty result.
C25_RateLimit ==
    requisicao.pc \in {"andando", "fim"} =>
        /\ requisicao.tentativa <= 3
        /\ ~requisicao.levantou
        /\ (requisicao.pc = "fim" /\ requisicao.respostas # <<>>
              /\ requisicao.respostas[Len(requisicao.respostas)] = "429")
              => (requisicao.tentativa = 3 /\ requisicao.vazio)
        /\ \A i, j \in DOMAIN requisicao.respostas :
              (i < j /\ requisicao.respostas[i] = "429" /\ requisicao.respostas[j] = "429")
                  => requisicao.esperas[i] < requisicao.esperas[j]

(***************************************************************************)
(* Claims about the roll-up of mentions into topics                        *)
(***************************************************************************)
SpecRollup == InitSemMentions /\ [][NextRollup]_vars

\* the positions of the mentions of one subject in the window
DoAssunto(assunto) ==
    {i \in DOMAIN rollup.mencoes :
        (IF rollup.mencoes[i].assunto = "none" THEN "Outro" ELSE rollup.mencoes[i].assunto) = assunto}

RECURSIVE SomaEngagement(_)
SomaEngagement(posicoes) ==
    IF posicoes = {} THEN 0
    ELSE LET i == CHOOSE x \in posicoes : TRUE
             e == rollup.mencoes[i].engagement_score
         IN  (IF e = -1 THEN 0 ELSE e) + SomaEngagement(posicoes \ {i})

\* C26: the roll-up of a window has exactly one topic per distinct subject of
\* its mentions (a mention without subject counting under "Outro"); in each
\* topic the total is the number of those mentions, positive and negative
\* count the mentions of that sentiment, positive + negative + neutral is the
\* total, and engagement is the sum of their engagement scores.
C26_RollUp ==
    rollup.feita =>
        /\ \A i \in DOMAIN rollup.mencoes :
              \E k \in DOMAIN rollup.agregados : i \in DoAssunto(rollup.agregados[k].assunto)
        /\ \A k, l \in DOMAIN rollup.agregados :
              rollup.agregados[k].assunto = rollup.agregados[l].assunto => k = l
        /\ \A k \in DOMAIN rollup.agregados :
              LET t == rollup.agregados[k]
                  seus == DoAssunto(t.assunto)
              IN  /\ seus # {}
                  /\ t.total_mencoes = Cardinality(seus)
                  /\ t.mencoes_positivas =
                        Cardinality({i \in seus : rollup.mencoes[i].sentimento = "positivo"})
                  /\ t.mencoes_negativas =
                        Cardinality({i \in seus : rollup.mencoes[i].sentimento = "negativo"})
                  /\ t.mencoes_neutras >=
                        Cardinality({i \in seus : rollup.mencoes[i].sentimento = "neutro"})
                  /\ t.mencoes_positivas + t.mencoes_negativas + t.mencoes_neutras = t.total_mencoes
                  /\ t.engagement_total = SomaEngagement(seus)

\* the window Economia/positivo 10, Economia/negativo 20, Saude/neutro 5
\* rolled up into Economia 2, 1, 1, 0, 30 and Saude 1, 0, 0, 1, 5
C26_Witness ==
    /\ rollup.feita /\ Len(rollup.mencoes) = 3 /\ Len(rollup.agregados) = 2
    /\ rollup.count = 2
    /\ \E k, l \in DOMAIN rollup.agregados :
          /\ rollup.agregados[k].assunto = "Economia"
          /\ rollup.agregados[k].total_mencoes = 2
          /\ rollup.agregados[k].mencoes_positivas = 1
          /\ rollup.agregados[k].mencoes_negativas = 1
          /\ rollup.agregados[k].mencoes_neutras = 0
          /\ rollup.agregados[k].engagement_total = 30
          /\ rollup.agregados[l].assunto = "Saude"
          /\ rollup.agregados[l].total_mencoes = 1
          /\ rollup.agregados[l].mencoes_neutras = 1
          /\ rollup.agregados[l].engagement_total = 5

(***************************************************************************)
(* Claims about scenario S1                                                *)
(***************************************************************************)
SpecCenario == InitSemMentions /\ [][NextCenario]_vars

\* scenario S1: "João da Silva Neto", title "João Silva visita obra", empty
\* body, g1.globo.com, published 2 hours ago, no engagement
CenarioS1 ==
    /\ cenario.feita
    /\ NormalizeText(cenario.nome_politico)
          = <<"j", "o", "a", "o", " ", "d", "a", " ", "s", "i", "l", "v", "a", " ", "n", "e", "t", "o">>
    /\ NormalizeText(cenario.titulo)
          = <<"j", "o", "a", "o", " ", "s", "i", "l", "v", "a", " ", "v", "i", "s", "i", "t", "a", " ", "o", "b", "r", "a">>
    /\ cenario.conteudo = <<>>
    /\ cenario.dominio = "g1.globo.com"
    /\ cenario.horas = 2
    /\ cenario.likes = 0

\* the four scores of S1: recency 96, mention 50 by the title, source 75,
\* engagement 0, and the item kept
ParciaisS1 ==
    /\ cenario.scores.score_recencia = 9600
    /\ cenario.mencao_titulo /\ cenario.scores.score_mencao = 5000
    /\ cenario.scores.score_fonte = 7500
    /\ cenario.scores.score_engajamento = 0
    /\ cenario.mantida

\* C27 (as claimed): in scenario S1 the scores are 96, 50, 75 and 0, the
\* composite is 60.5 and the item is kept.
C27_S1Original ==
    CenarioS1 => (ParciaisS1 /\ cenario.scores.relevancia_total = 6050)

\* C27 (amended): in scenario S1 the scores are 96, 50, 75 and 0, the
\* composite is 60.25 and the item is kept.
C27_S1 ==
    CenarioS1 => (ParciaisS1 /\ cenario.scores.relevancia_total = 6025)

C27_Witness ==
    CenarioS1 /\ cenario.scores.relevancia_total = 6025 /\ cenario.mantida

(***************************************************************************)
(* Claims about the classification of a chunk                              *)
(***************************************************************************)
SpecAlinhamento == InitSemMentions /\ [][NextAlinhamento]_vars

\* C29 (as claimed): when the classifier answered, every mention of the
\* chunk that has text carries the classification the classifier produced
\* for its own text, also when other mentions of the chunk had no text and
\* were left out of the prompt.
C29_ClassificacaoPropria ==
    (alinhamento.feita /\ alinhamento.erro = "none") =>
        \A j \in DOMAIN alinhamento.batch :
            alinhamento.batch[j].conteudo \notin {"none", ""} =>
                LET c == NormalizarResultado(ClassificacaoDe(alinhamento.batch[j].conteudo))
                IN  /\ alinhamento.mencoes[j].assunto = c.assunto
                    /\ alinhamento.mencoes[j].assunto_detalhe = c.assunto_detalhe
                    /\ alinhamento.mencoes[j].sentimento = c.sentimento

====
